---- MODULE Spec2Model ----
(***************************************************************************)
(* Model of miro's storedatabase.py: the converters that turn a graph of   *)
(* DDBObjects into SavableObjects and back, and the pickle file around.    *)
(*                                                                         *)
(* The Python heap is a sequence of cells; a cell's address is its index   *)
(* and plays the role of id(object).  Values held in attributes, list      *)
(* slots and dict entries are immediates (None, int, text) or references   *)
(* to cells.  The interpreter's call stack is the variable stack; every    *)
(* action executes the statements of one method up to its next call or     *)
(* return.                                                                  *)
(***************************************************************************)
EXTENDS Integers, Sequences, FiniteSets, TLC

VARIABLES
    heap,       \* the cells allocated so far
    stack,      \* the frames of the calls in progress, innermost last
    memory,     \* convertObjectList's memory dict: id(source) -> converted
    conv,       \* the converter in use (self)
    phase,      \* where the client is: start, saving, saved, restoring, done, failed
    exc,        \* the exception that reached the client, "" if none
    result,     \* the value the last completed call returned
    disk,       \* pathname -> file
    fileOpen,   \* the pathname of the file object f while it is open, else ""
    input,      \* the client's original graph (never changes)
    saved,      \* what the save call returned, kept for the restore call
    calls,      \* the API calls made so far, as records
    opened,     \* the pathnames opened for writing so far
    bodyCount,  \* per source object: entries into convertObject's field loop
    parked      \* the locals of a second call, in a thread that is not running

vars == <<heap, stack, memory, conv, phase, exc, result, disk, fileOpen,
          input, saved, calls, opened, bodyCount, parked>>

(***************************************************************************)
(* Bounds of the model.                                                    *)
(***************************************************************************)
MaxObjs == 3
MaxLen == 2
MaxDict == 2

(***************************************************************************)
(* Python values.                                                          *)
(***************************************************************************)
None == [k |-> "none", v |-> 0]
PyInt(i) == [k |-> "int", v |-> i]
PyText(i) == [k |-> "text", v |-> i]
Ref(a) == [k |-> "ref", v |-> a]

IsRef(x) == x.k = "ref"

NoAttrs == [f \in {} |-> None]

(* class instances: DDBObjects ("obj") and SavableObjects ("sav") *)
ObjCell(klass, attrs) ==
    [kind |-> "obj", cls |-> klass, attrs |-> attrs, elems |-> <<>>]
SavableObject(classString) ==
    [kind |-> "sav", cls |-> classString, attrs |-> NoAttrs, elems |-> <<>>]
_BootStrapClass ==
    [kind |-> "obj", cls |-> "_BootStrapClass", attrs |-> NoAttrs, elems |-> <<>>]
(* a list holds its items in elems, a dict its (key, value) pairs in items() order *)
ListCell(elems) ==
    [kind |-> "list", cls |-> "", attrs |-> NoAttrs, elems |-> elems]
DictCell(items) ==
    [kind |-> "dict", cls |-> "", attrs |-> NoAttrs, elems |-> items]

IsCell(h, x, kind) == IsRef(x) /\ x.v \in 1..Len(h) /\ h[x.v].kind = kind

(***************************************************************************)
(* Schema items (schema.py) and the schema set handed to the converters.   *)
(***************************************************************************)
SchemaSimpleItem(kind, noneOk) ==
    [t |-> "simple", kind |-> kind, noneOk |-> noneOk]
SchemaList(childSchema, noneOk) ==
    [t |-> "list", childSchema |-> childSchema, noneOk |-> noneOk]
SchemaDict(keySchema, valueSchema, noneOk) ==
    [t |-> "dict", keySchema |-> keySchema, valueSchema |-> valueSchema,
     noneOk |-> noneOk]
SchemaObject(klass, noneOk) ==
    [t |-> "object", klass |-> klass, noneOk |-> noneOk]
(* a SchemaObject of a subclass whose validate accepts an instance of any   *)
(* class                                                                   *)
SchemaObjectAny(klass, noneOk) ==
    [t |-> "object", klass |-> klass, noneOk |-> noneOk, any |-> TRUE]
(* a schema item of a class that is none of the four convertData knows;  *)
(* accepts is what its validate says about a value that is not None        *)
SchemaOther(noneOk, accepts) ==
    [t |-> "other", noneOk |-> noneOk, accepts |-> accepts]

ObjectSchema(klass, classString, fields) ==
    [klass |-> klass, classString |-> classString, fields |-> fields]

FeedSchema ==
    ObjectSchema("Feed", "feed",
        << <<"title", SchemaSimpleItem("text", FALSE)>>,
           <<"items", SchemaList(SchemaObject("Item", FALSE), FALSE)>> >>)
ItemSchema ==
    ObjectSchema("Item", "item",
        << <<"name", SchemaSimpleItem("text", FALSE)>>,
           <<"feed", SchemaObject("Feed", TRUE)>> >>)
(* FileItem is a subclass of Item with one more field *)
FileItemSchema ==
    ObjectSchema("FileItem", "file-item",
        << <<"name", SchemaSimpleItem("text", FALSE)>>,
           <<"feed", SchemaObject("Feed", TRUE)>>,
           <<"tags", SchemaDict(SchemaSimpleItem("text", FALSE),
                                SchemaSimpleItem("int", FALSE), FALSE)>> >>)

TestSchemas == <<FeedSchema, ItemSchema, FileItemSchema>>

(* another schema set: it has no schema for Feed, its items accept None,   *)
(* Item has an item convertData does not support, FileItem declares its    *)
(* fields in another order, leaves name out and takes any object as feed   *)
BadSchemas ==
    << ObjectSchema("Item", "item",
          << <<"name", SchemaSimpleItem("text", TRUE)>>,
             <<"feed", SchemaOther(TRUE, TRUE)>> >>),
       ObjectSchema("FileItem", "file-item",
          << <<"tags", SchemaDict(SchemaSimpleItem("text", FALSE),
                                  SchemaSimpleItem("int", FALSE), TRUE)>>,
             <<"feed", SchemaObjectAny("Feed", TRUE)>> >>) >>

(* the objectSchemas argument: None (take the default) or an explicit list *)
NoSchemas == <<"None">>
SchemasArgs == {NoSchemas, TestSchemas, BadSchemas}

(* classes of the program; Widget has no ObjectSchema *)
Classes == <<"Feed", "Item", "FileItem", "Widget">>
ClassStringOf(klass) ==
    CASE klass = "Feed" -> "feed"
      [] klass = "Item" -> "item"
      [] klass = "FileItem" -> "file-item"
      [] OTHER -> "widget"
FieldNames(fields) == {fields[i][1] : i \in 1..Len(fields)}

(***************************************************************************)
(* The object graphs the client starts with.  Objects sit at addresses     *)
(* 1..n ordered by class, their containers behind them.  form is "obj"     *)
(* for a graph of live objects and "sav" for a graph of flat records; the  *)
(* flat graphs are those no save produces (a defect, an unknown tag or a   *)
(* list or dict that two records hold).                                    *)
(***************************************************************************)
Rank(klass) == CHOOSE i \in 1..Len(Classes) : Classes[i] = klass

SeqsUpTo(S, n) == UNION {[1..m -> S] : m \in 0..n}

(* what an Item's feed attribute may hold: None, a Feed or a Widget *)
FeedChoices(cls) ==
    {None} \cup {Ref(a) : a \in {b \in DOMAIN cls : cls[b] \in {"Feed", "Widget"}}}
(* what a Feed's items list may hold: any sequence of non-Feed objects *)
ItemChoices(cls) ==
    SeqsUpTo({Ref(a) : a \in {b \in DOMAIN cls : cls[b] # "Feed"}}, MaxLen)

(* a FileItem's tags dict has between 0 and MaxDict entries, by its address *)
DictSize(a) == a % (MaxDict + 1)

(* the object whose list or dict object a may hold instead of one of its   *)
(* own: the first object of its class, 0 if a is that                      *)
SharedWith(a, cls) ==
    LET first == CHOOSE b \in DOMAIN cls : cls[b] = cls[a] /\ \A e \in 1..(b - 1) : cls[e] # cls[a]
    IN  IF first < a THEN first ELSE 0

Descs(a, klass, cls) ==
    CASE klass = "Feed" ->
           {[klass |-> klass, feed |-> None, items |-> s, ntags |-> 0, share |-> 0] :
                s \in ItemChoices(cls)}
           \cup {[klass |-> klass, feed |-> None, items |-> <<>>, ntags |-> 0, share |-> b] :
                    b \in {SharedWith(a, cls)} \ {0}}
      [] klass = "Item" ->
           {[klass |-> klass, feed |-> f, items |-> <<>>, ntags |-> 0, share |-> 0] :
                f \in FeedChoices(cls)}
      [] klass = "FileItem" ->
           {[klass |-> klass, feed |-> f, items |-> <<>>, ntags |-> DictSize(a), share |-> 0] :
                f \in FeedChoices(cls)}
           \cup {[klass |-> klass, feed |-> None, items |-> <<>>, ntags |-> 0, share |-> b] :
                    b \in {SharedWith(a, cls)} \ {0}}
      [] OTHER ->
           {[klass |-> klass, feed |-> None, items |-> <<>>, ntags |-> 0, share |-> 0]}

RECURSIVE Graphs(_, _)
Graphs(cls, i) ==
    IF i = 0 THEN {<<>>}
    ELSE {Append(g, d) : g \in Graphs(cls, i - 1), d \in Descs(i, cls[i], cls)}

Sorted(cls) == \A i, j \in DOMAIN cls : i < j => Rank(cls[i]) <= Rank(cls[j])

(* at most one defect per graph: a value that does not fit its schema item, *)
(* or None where the schema set of the program does not allow it           *)
NoDefect == [obj |-> 0, field |-> ""]
Defects(descs) ==
    {NoDefect}
    \cup {[obj |-> a, field |-> "title"] : a \in {b \in DOMAIN descs : descs[b].klass = "Feed"}}
    \cup {[obj |-> a, field |-> "items"] : a \in {b \in DOMAIN descs : descs[b].klass = "Feed"}}
    \cup {[obj |-> a, field |-> "name"] :
             a \in {b \in DOMAIN descs : descs[b].klass \in {"Item", "FileItem"}}}
    \cup {[obj |-> a, field |-> "tags"] :
             a \in {b \in DOMAIN descs : descs[b].klass = "FileItem" /\ descs[b].ntags > 0}}
    \cup {[obj |-> a, field |-> "noname"] :
             a \in {b \in DOMAIN descs : descs[b].klass = "Item"}}
    \cup {[obj |-> a, field |-> "notags"] :
             a \in {b \in DOMAIN descs : descs[b].klass = "FileItem" /\ descs[b].share = 0}}

Hit(defect, a, field) == defect.obj = a /\ defect.field = field

TagItems(a, m, defect) ==
    [j \in 1..m |-> <<PyText(j), IF Hit(defect, a, "tags") /\ j = 1 THEN PyText(7) ELSE PyInt(j)>>]

(* the attributes of object a; at is the address of its container, if any *)
AttrsOf(d, a, at, defect) ==
    CASE d.klass = "Feed" ->
           ("title" :> (IF Hit(defect, a, "title") THEN PyInt(7) ELSE PyText(a)))
           @@ ("items" :> (IF Hit(defect, a, "items") THEN None ELSE Ref(at)))
      [] d.klass = "Item" ->
           ("name" :> (IF Hit(defect, a, "name") THEN PyInt(7)
                       ELSE IF Hit(defect, a, "noname") THEN None ELSE PyText(a)))
           @@ ("feed" :> d.feed)
      [] d.klass = "FileItem" ->
           ("name" :> (IF Hit(defect, a, "name") THEN PyInt(7) ELSE PyText(a)))
           @@ ("feed" :> d.feed)
           @@ ("tags" :> (IF Hit(defect, a, "notags") THEN None ELSE Ref(at)))
      [] OTHER -> NoAttrs

HasContainer(d) == d.klass \in {"Feed", "FileItem"}

RECURSIVE CountContainers(_, _)
CountContainers(descs, i) ==
    IF i = 0 THEN 0
    ELSE CountContainers(descs, i - 1) + (IF HasContainer(descs[i]) THEN 1 ELSE 0)

ContainerAt(descs, a) == Len(descs) + CountContainers(descs, a)

RECURSIVE Containers(_, _, _)
Containers(descs, i, defect) ==
    IF i = 0 THEN <<>>
    ELSE LET rest == Containers(descs, i - 1, defect)
             d == descs[i]
         IN  IF d.klass = "Feed" THEN Append(rest, ListCell(d.items))
             ELSE IF d.klass = "FileItem"
                  THEN Append(rest, DictCell(TagItems(i, d.ntags, defect)))
                  ELSE rest

BuildHeap(descs, form, defect) ==
    [a \in 1..Len(descs) |->
        [kind |-> form,
         cls |-> IF form = "obj" THEN descs[a].klass ELSE ClassStringOf(descs[a].klass),
         attrs |-> AttrsOf(descs[a], a,
                           ContainerAt(descs, IF descs[a].share # 0 THEN descs[a].share ELSE a),
                           defect),
         elems |-> <<>>]]
    \o Containers(descs, Len(descs), defect)

(* the objects handed to the first call: some of the objects, in address order *)
RECURSIVE Ascending(_, _)
Ascending(S, n) ==
    IF n = 0 THEN <<>>
    ELSE IF n \in S THEN Append(Ascending(S, n - 1), Ref(n))
         ELSE Ascending(S, n - 1)

(* schema_mod.VERSION *)
VERSION == 1

(* a file holds the pickles written to it; a pickle is the tuple of        *)
(* (version, records), or something else that was written to the file      *)
Paths == {"new.db", "old.db"}
NoFile == [exists |-> FALSE, data |-> <<>>]
EmptyFile == [exists |-> TRUE, data |-> <<>>]
Pickled(t, version) == [t |-> t, version |-> version, cells |-> <<>>, roots |-> <<>>]
OldFile == [exists |-> TRUE, data |-> <<Pickled("tuple2", VERSION - 1)>>]
(* files that are no container: cut off to nothing, bytes that are not a   *)
(* pickle, the pickle of a 3-tuple, the pickle of an int                   *)
CorruptFiles ==
    ("cut.db" :> EmptyFile)
    @@ ("bytes.db" :> [exists |-> TRUE, data |-> <<Pickled("garbage", 0)>>])
    @@ ("triple.db" :> [exists |-> TRUE, data |-> <<Pickled("tuple3", VERSION)>>])
    @@ ("int.db" :> [exists |-> TRUE, data |-> <<Pickled("int", VERSION)>>])
InitDisk == ("new.db" :> NoFile) @@ ("old.db" :> OldFile) @@ CorruptFiles

Init ==
    /\ \E n \in 0..MaxObjs :
         \E cls \in [1..n -> {Classes[i] : i \in 1..Len(Classes)}] :
           /\ Sorted(cls)
           /\ \E descs \in Graphs(cls, n) :
                \E form \in {"obj", "sav"}, defect \in Defects(descs), R \in SUBSET (1..n) :
                  /\ defect # NoDefect => R = 1..n
                  /\ form = "sav" => \/ defect # NoDefect
                                     \/ \E a \in 1..n : cls[a] = "Widget"
                                     \/ \E a \in 1..n : descs[a].share # 0
                  /\ heap = BuildHeap(descs, form, defect)
                  /\ input = [form |-> form, roots |-> Ascending(R, n),
                              nobjs |-> n, defect |-> defect,
                              heap |-> BuildHeap(descs, form, defect)]
    /\ stack = <<>>
    /\ memory = <<>>
    /\ conv = <<>>
    /\ phase = "start"
    /\ exc = ""
    /\ result = <<>>
    /\ disk = InitDisk
    /\ fileOpen = ""
    /\ saved = <<>>
    /\ calls = <<>>
    /\ opened = {}
    /\ bodyCount = <<>>
    /\ parked = <<>>

(***************************************************************************)
(* schema.py: SchemaItem.validate.  TRUE when data conforms to the schema  *)
(* item, FALSE when validate raises ValidationError.                       *)
(***************************************************************************)
RECURSIVE Validate(_, _, _, _)
Validate(h, c, data, schema) ==
    IF data = None THEN schema.noneOk
    ELSE CASE schema.t = "simple" -> data.k = schema.kind
           [] schema.t = "list" ->
                /\ IsCell(h, data, "list")
                /\ \A i \in 1..Len(h[data.v].elems) :
                      Validate(h, c, h[data.v].elems[i], schema.childSchema)
           [] schema.t = "dict" ->
                /\ IsCell(h, data, "dict")
                /\ \A i \in 1..Len(h[data.v].elems) :
                      /\ Validate(h, c, h[data.v].elems[i][1], schema.keySchema)
                      /\ Validate(h, c, h[data.v].elems[i][2], schema.valueSchema)
           [] schema.t = "object" ->
                /\ IsCell(h, data, "obj")
                /\ \/ "any" \in DOMAIN schema
                   \/ h[data.v].cls \in DOMAIN c.classesToStrings
           [] schema.t = "other" -> schema.accepts
           [] OTHER -> FALSE

(***************************************************************************)
(* ConverterBase.__init__ and the methods the two subclasses override.     *)
(***************************************************************************)
RECURSIVE LookupsButFirst(_, _)
LookupsButFirst(objectSchemas, i) ==
    IF i <= 1
    THEN [objectSchemaLookup |-> <<>>, classesToStrings |-> <<>>, stringsToClasses |-> <<>>]
    ELSE LET l == LookupsButFirst(objectSchemas, i - 1)
             os == objectSchemas[i]
         IN  [objectSchemaLookup |-> (os.klass :> os) @@ l.objectSchemaLookup,
              classesToStrings |-> (os.klass :> os.classString) @@ l.classesToStrings,
              stringsToClasses |-> (os.classString :> os.klass) @@ l.stringsToClasses]
RECURSIVE Lookups(_, _)
Lookups(objectSchemas, i) ==
    IF i = 0
    THEN [objectSchemaLookup |-> <<>>, classesToStrings |-> <<>>, stringsToClasses |-> <<>>]
    ELSE LET l == Lookups(objectSchemas, i - 1)
             os == objectSchemas[i]
         IN  [objectSchemaLookup |-> (os.klass :> os) @@ l.objectSchemaLookup,
              classesToStrings |-> (os.klass :> os.classString) @@ l.classesToStrings,
              stringsToClasses |-> (os.classString :> os.klass) @@ l.stringsToClasses]

Converter(dir, objectSchemas) ==
    LET l == Lookups(objectSchemas, Len(objectSchemas))
    IN  [dir |-> dir,
         objectSchemaLookup |-> l.objectSchemaLookup,
         classesToStrings |-> l.classesToStrings,
         stringsToClasses |-> l.stringsToClasses]

Ok(v) == [ok |-> TRUE, val |-> v, exc |-> ""]
Fail(kind) == [ok |-> FALSE, val |-> None, exc |-> kind]

(* SavableConverter.prepareObjectList: objects of unknown classes are left out *)
RECURSIVE SavablePrepareReversed(_, _, _, _)
SavablePrepareReversed(c, h, objectList, i) ==
    IF i = 0 THEN <<>>
    ELSE LET rv == SavablePrepareReversed(c, h, objectList, i - 1)
             object == objectList[i]
         IN  IF h[object.v].cls \in DOMAIN c.classesToStrings
             THEN <<<<object, SchemaObject(h[object.v].cls, FALSE)>>>> \o rv
             ELSE rv
RECURSIVE SavablePrepareObjectList(_, _, _, _)
SavablePrepareObjectList(c, h, objectList, i) ==
    IF i = 0 THEN <<>>
    ELSE LET rv == SavablePrepareObjectList(c, h, objectList, i - 1)
             object == objectList[i]
         IN  IF h[object.v].cls \in DOMAIN c.classesToStrings
             THEN Append(rv, <<object, SchemaObject(h[object.v].cls, FALSE)>>)
             ELSE rv

(* as UnconverterPrepareObjectList, but records with an unknown classString *)
(* are left out, as the saver leaves out objects of unknown classes        *)
RECURSIVE UnconverterPrepareLenient(_, _, _)
UnconverterPrepareLenient(c, h, objectList) ==
    IF objectList = <<>> THEN Ok(<<>>)
    ELSE LET rv == UnconverterPrepareLenient(c, h, SubSeq(objectList, 1, Len(objectList) - 1)).val
             o == objectList[Len(objectList)]
         IN  IF h[o.v].cls \in DOMAIN c.stringsToClasses
             THEN Ok(Append(rv, <<o, SchemaObject(c.stringsToClasses[h[o.v].cls], FALSE)>>))
             ELSE Ok(rv)
(* SavableUnconverter.prepareObjectList: an unknown classString is a KeyError *)
UnconverterPrepareObjectList(c, h, objectList) ==
    IF \E i \in 1..Len(objectList) : h[objectList[i].v].cls \notin DOMAIN c.stringsToClasses
    THEN Fail("KeyError")
    ELSE Ok([i \in 1..Len(objectList) |->
                <<objectList[i], SchemaObject(c.stringsToClasses[h[objectList[i].v].cls], FALSE)>>])

(* as prepareObjectList, but the saver looks every object's class up *)
prepareObjectListStrict(c, h, objectList) ==
    IF c.dir = "save"
    THEN IF \E i \in 1..Len(objectList) : h[objectList[i].v].cls \notin DOMAIN c.classesToStrings
         THEN Fail("KeyError")
         ELSE Ok(SavablePrepareObjectList(c, h, objectList, Len(objectList)))
    ELSE UnconverterPrepareObjectList(c, h, objectList)
prepareObjectList(c, h, objectList) ==
    IF c.dir = "save"
    THEN Ok(SavablePrepareObjectList(c, h, objectList, Len(objectList)))
    ELSE UnconverterPrepareObjectList(c, h, objectList)

(* the class the converter looks the schema up with: that of the object itself *)
SchemaKeyDeclared(c, h, object, schema) == schema.klass
SchemaKey(c, h, object, schema) ==
    IF c.dir = "save" THEN h[object.v].cls ELSE c.stringsToClasses[h[object.v].cls]

(* as getObjectSchema, but the unconverter takes the class the schema item names *)
getObjectSchemaDeclared(c, h, object, schema) ==
    IF c.dir = "save"
    THEN IF ~IsRef(object) \/ h[object.v].kind \notin {"obj", "sav"} THEN Fail("KeyError")
         ELSE IF SchemaKey(c, h, object, schema) \notin DOMAIN c.objectSchemaLookup
              THEN Fail("KeyError")
              ELSE Ok(c.objectSchemaLookup[SchemaKey(c, h, object, schema)])
    ELSE IF ~IsCell(h, object, "sav") THEN Fail("AttributeError")
         ELSE IF schema.klass \notin DOMAIN c.objectSchemaLookup THEN Fail("KeyError")
              ELSE Ok(c.objectSchemaLookup[schema.klass])
getObjectSchema(c, h, object, schema) ==
    IF c.dir = "save"
    THEN IF ~IsRef(object) \/ h[object.v].kind \notin {"obj", "sav"} THEN Fail("KeyError")
         ELSE IF SchemaKey(c, h, object, schema) \notin DOMAIN c.objectSchemaLookup
              THEN Fail("KeyError")
              ELSE Ok(c.objectSchemaLookup[SchemaKey(c, h, object, schema)])
    ELSE IF ~IsCell(h, object, "sav") THEN Fail("AttributeError")
         ELSE IF h[object.v].cls \notin DOMAIN c.stringsToClasses THEN Fail("KeyError")
              ELSE Ok(c.objectSchemaLookup[SchemaKey(c, h, object, schema)])

makeNewConvertLive(c, classString) ==
    [_BootStrapClass EXCEPT !.cls = c.stringsToClasses[classString]]
makeNewConvertNoClass(c, classString) ==
    IF c.dir = "save" THEN SavableObject(classString) ELSE _BootStrapClass
makeNewConvert(c, classString) ==
    IF c.dir = "save" THEN SavableObject(classString)
    ELSE [_BootStrapClass EXCEPT !.cls = c.stringsToClasses[classString]]

getSourceAttr(c, h, object, attrName) ==
    IF attrName \in DOMAIN h[object.v].attrs THEN Ok(h[object.v].attrs[attrName])
    ELSE Fail(IF c.dir = "save" THEN "AttributeError" ELSE "KeyError")

setTargetAttrOnce(h, target, attrName, attrValue) ==
    IF h[target].attrs = NoAttrs THEN [h EXCEPT ![target].attrs = (attrName :> attrValue) @@ @]
    ELSE h
setTargetAttr(h, target, attrName, attrValue) ==
    [h EXCEPT ![target].attrs = (attrName :> attrValue) @@ @]

preValidateBase(c, h, data, schema) == TRUE
preValidate(c, h, data, schema) ==
    IF c.dir = "save" THEN Validate(h, c, data, schema) ELSE TRUE

postValidate(c, h, converted, schema) ==
    IF c.dir = "restore" THEN Validate(h, c, converted, schema) ELSE TRUE

(* what handleValidationError raises.  The unconverter evaluates           *)
(* schema.ValidationWarning on its schema argument, a schema item: either  *)
(* that attribute lookup fails or the class found there is raised.         *)
handleValidationError(c) ==
    IF c.dir = "save" THEN {"ValidationError"}
    ELSE {"AttributeError", "ValidationWarning"}

(* id(object) in memory *)
MemoizedNever(m, object) == FALSE
Memoized(m, object) == object.v \in DOMAIN m

(* memory[id(object)] = convertedObject *)
MemorizeNothing(m, object, convertedObject) == m
MemorizeByTarget(m, object, convertedObject) == (convertedObject :> convertedObject) @@ m
Memorize(m, object, convertedObject) == (object.v :> convertedObject) @@ m

(* rv[newKey] = newValue *)
DictSetKeyAsValue(items, key, value) ==
    IF \E j \in 1..Len(items) : items[j][1] = key
    THEN items
    ELSE Append(items, <<key, key>>)
DictSetSwapped(items, key, value) ==
    IF \E j \in 1..Len(items) : items[j][1] = value
    THEN items
    ELSE Append(items, <<value, key>>)
DictSet(items, key, value) ==
    IF \E j \in 1..Len(items) : items[j][1] = key
    THEN LET j == CHOOSE j \in 1..Len(items) : items[j][1] = key
         IN  [items EXCEPT ![j] = <<key, value>>]
    ELSE Append(items, <<key, value>>)

(***************************************************************************)
(* cPickle: dump numbers the cells reachable from the pickled value in the *)
(* order it first meets them and writes each with its references replaced  *)
(* by those numbers; load allocates a fresh cell per number.               *)
(***************************************************************************)
RECURSIVE SetToSeq(_)
SetToSeq(S) ==
    IF S = {} THEN <<>>
    ELSE LET x == CHOOSE x \in S : TRUE IN <<x>> \o SetToSeq(S \ {x})

RECURSIVE Flatten(_)
Flatten(pairs) ==
    IF pairs = <<>> THEN <<>> ELSE <<pairs[1][1], pairs[1][2]>> \o Flatten(Tail(pairs))

(* the values a cell holds, in the order pickle writes them *)
Children(cell) ==
    IF cell.kind = "list" THEN cell.elems
    ELSE IF cell.kind = "dict" THEN Flatten(cell.elems)
    ELSE LET names == SetToSeq(DOMAIN cell.attrs)
         IN  [i \in 1..Len(names) |-> cell.attrs[names[i]]]

RECURSIVE PickleOrder(_, _, _)
PickleOrder(h, todo, order) ==
    IF todo = <<>> THEN order
    ELSE LET x == todo[1] IN
         IF ~IsRef(x) \/ \E i \in 1..Len(order) : order[i] = x.v
         THEN PickleOrder(h, Tail(todo), order)
         ELSE PickleOrder(h, Children(h[x.v]) \o Tail(todo), Append(order, x.v))

Renumber(x, map) == IF IsRef(x) THEN Ref(map[x.v]) ELSE x

RenumberCell(cell, map) ==
    [cell EXCEPT
        !.attrs = [f \in DOMAIN cell.attrs |-> Renumber(cell.attrs[f], map)],
        !.elems = IF cell.kind = "dict"
                  THEN [i \in 1..Len(cell.elems) |->
                           <<Renumber(cell.elems[i][1], map), Renumber(cell.elems[i][2], map)>>]
                  ELSE [i \in 1..Len(cell.elems) |-> Renumber(cell.elems[i], map)]]

PickleDumpNoVersion(h, version, objects) ==
    LET order == PickleOrder(h, objects, <<>>)
        number == [a \in {order[i] : i \in 1..Len(order)} |->
                      CHOOSE i \in 1..Len(order) : order[i] = a]
    IN  [t |-> "tuple2", version |-> 0,
         cells |-> [i \in 1..Len(order) |-> RenumberCell(h[order[i]], number)],
         roots |-> [i \in 1..Len(objects) |-> Renumber(objects[i], number)]]
PickleDump(h, version, objects) ==
    LET order == PickleOrder(h, objects, <<>>)
        number == [a \in {order[i] : i \in 1..Len(order)} |->
                      CHOOSE i \in 1..Len(order) : order[i] = a]
    IN  [t |-> "tuple2", version |-> version,
         cells |-> [i \in 1..Len(order) |-> RenumberCell(h[order[i]], number)],
         roots |-> [i \in 1..Len(objects) |-> Renumber(objects[i], number)]]

(* the cells load allocates behind the heap h, and the value it returns *)
PickleLoad(h, pickled) ==
    LET address == [i \in 1..Len(pickled.cells) |-> Len(h) + i]
    IN  [heap |-> h \o [i \in 1..Len(pickled.cells) |-> RenumberCell(pickled.cells[i], address)],
         version |-> pickled.version,
         savedObjects |-> [i \in 1..Len(pickled.roots) |-> Renumber(pickled.roots[i], address)]]

(* version, savedObjects = cPickle.load(f): load fails at the end of the   *)
(* file or on bytes that are no pickle, the unpacking fails on a value     *)
(* that is no sequence or has not two items                                *)
UnpickleLenient(h, f) ==
    IF f.data # <<>> /\ f.data[1].t = "tuple2"
    THEN Ok(PickleLoad(h, f.data[1]))
    ELSE Ok(PickleLoad(h, Pickled("tuple2", VERSION)))
Unpickle(h, f) ==
    IF f.data = <<>> THEN Fail("EOFError")
    ELSE IF f.data[1].t = "garbage" THEN Fail("UnpicklingError")
    ELSE IF f.data[1].t = "int" THEN Fail("TypeError")
    ELSE IF f.data[1].t # "tuple2" THEN Fail("ValueError")
    ELSE Ok(PickleLoad(h, f.data[1]))

(***************************************************************************)
(* Frames of the call stack.                                               *)
(***************************************************************************)
Top == stack[Len(stack)]
Callers == SubSeq(stack, 1, Len(stack) - 1)
Running(fn) == stack # <<>> /\ Top.fn = fn

ApiFrame(fn, pathname, objectSchemas) ==
    [fn |-> fn, pc |-> "convert", pathname |-> pathname,
     objectSchemas |-> objectSchemas, version |-> 0, ret |-> None]
ConvertObjectListFrame(todo) ==
    [fn |-> "convertObjectList", pc |-> "loop", todo |-> todo, i |-> 1,
     retval |-> <<>>, ret |-> None]
ConvertDataFrame(data, schema) ==
    [fn |-> "convertData", pc |-> "start", data |-> data, schema |-> schema,
     rv |-> None, ret |-> None]
ConvertListFrame(list, schema) ==
    [fn |-> "convertList", pc |-> "start", list |-> list, schema |-> schema,
     i |-> 1, rv |-> 0, ret |-> None]
ConvertDictFrame(dict, schema) ==
    [fn |-> "convertDict", pc |-> "start", dict |-> dict, schema |-> schema,
     i |-> 1, rv |-> 0, newKey |-> None, ret |-> None]
ConvertObjectFrame(object, schema) ==
    [fn |-> "convertObject", pc |-> "check", object |-> object, schema |-> schema,
     i |-> 1, objectSchema |-> <<>>, convertedObject |-> 0, ret |-> None]

Call(frame, pc, callee) ==
    Append([stack EXCEPT ![Len(stack)] = [frame EXCEPT !.pc = pc]], callee)

(* a return: the frames of functions that only pass the value on are left  *)
(* too, and the first caller that goes on gets the value in ret            *)
RECURSIVE ReturnValue(_, _)
ReturnValue(callers, value) ==
    IF callers = <<>> THEN [stack |-> <<>>, toClient |-> TRUE]
    ELSE LET f == callers[Len(callers)] IN
         IF f.fn \in {"saveObjectList", "restoreObjectList", "restoreDatabase"}
         THEN ReturnValue(SubSeq(callers, 1, Len(callers) - 1), value)
         ELSE [stack |-> [callers EXCEPT ![Len(callers)].ret = value], toClient |-> FALSE]

Return(value) ==
    LET r == ReturnValue(Callers, value) IN
    /\ stack' = r.stack
    /\ exc' = exc
    /\ IF r.toClient
       THEN /\ phase' = (IF phase = "saving" THEN "saved" ELSE "done")
            /\ result' = value
       ELSE UNCHANGED <<phase, result>>

(* an exception nobody catches: every frame is left; f is closed on the way *)
Raise(kind) ==
    /\ stack' = <<>>
    /\ exc' = kind
    /\ phase' = "failed"
    /\ result' = result

(***************************************************************************)
(* The client's calls.                                                     *)
(***************************************************************************)

(* ConverterBase.__init__, then convertObjectList up to its loop.  With no *)
(* objectSchemas, __init__ reads the name schema, which the module never   *)
(* binds (it imports schema as schema_mod).                                *)
StartConvert(dir, objectSchemas, objects, frames, running) ==
    IF objectSchemas = NoSchemas
    THEN /\ Raise("NameError")
         /\ UNCHANGED <<conv, memory, bodyCount>>
    ELSE LET c == Converter(dir, objectSchemas)
             prepared == prepareObjectList(c, heap, objects)
         IN  /\ conv' = c
             /\ memory' = <<>>
             /\ bodyCount' = <<>>
             /\ IF prepared.ok
                THEN /\ stack' = frames \o <<ConvertObjectListFrame(prepared.val)>>
                     /\ phase' = running
                     /\ UNCHANGED <<exc, result>>
                ELSE Raise(prepared.exc)

saveObjectList(objectSchemas) ==
    /\ phase = "start"
    /\ input.form = "obj"
    /\ calls' = Append(calls, [fn |-> "saveObjectList", objectSchemas |-> objectSchemas,
                               pathname |-> ""])
    /\ StartConvert("save", objectSchemas, input.roots,
                    <<ApiFrame("saveObjectList", "", objectSchemas)>>, "saving")
    /\ UNCHANGED <<heap, disk, fileOpen, input, saved, opened, parked>>

saveDatabaseOpenFirst(objectSchemas, pathname) ==
    /\ phase = "start"
    /\ input.form = "obj"
    /\ calls' = Append(calls, [fn |-> "saveDatabase", objectSchemas |-> objectSchemas,
                               pathname |-> pathname])
    /\ disk' = [disk EXCEPT ![pathname] = EmptyFile]
    /\ opened' = opened \cup {pathname}
    /\ StartConvert("save", objectSchemas, input.roots,
                    <<ApiFrame("saveDatabase", pathname, objectSchemas),
                      ApiFrame("saveObjectList", "", objectSchemas)>>, "saving")
    /\ UNCHANGED <<heap, fileOpen, input, saved, parked>>

saveDatabase(objectSchemas, pathname) ==
    /\ phase = "start"
    /\ input.form = "obj"
    /\ calls' = Append(calls, [fn |-> "saveDatabase", objectSchemas |-> objectSchemas,
                               pathname |-> pathname])
    /\ StartConvert("save", objectSchemas, input.roots,
                    <<ApiFrame("saveDatabase", pathname, objectSchemas),
                      ApiFrame("saveObjectList", "", objectSchemas)>>, "saving")
    /\ UNCHANGED <<heap, disk, fileOpen, input, saved, opened, parked>>

(* saveDatabase after saveObjectList has returned: f = open(pathname, 'w') *)
saveDatabaseOpen ==
    /\ Running("saveDatabase")
    /\ Top.pc = "convert"
    /\ disk' = [disk EXCEPT ![Top.pathname] = EmptyFile]
    /\ fileOpen' = Top.pathname
    /\ opened' = opened \cup {Top.pathname}
    /\ stack' = [stack EXCEPT ![Len(stack)].pc = "dump"]
    /\ UNCHANGED <<heap, memory, conv, phase, exc, result, input, saved, calls, bodyCount, parked>>

(* cPickle.dump(toPickle, f), then f.close() *)
saveDatabaseDump ==
    /\ Running("saveDatabase")
    /\ Top.pc = "dump"
    /\ disk' = [disk EXCEPT ![Top.pathname] =
                   [exists |-> TRUE, data |-> <<PickleDump(heap, VERSION, Top.ret)>>]]
    /\ fileOpen' = ""
    /\ Return(None)
    /\ UNCHANGED <<heap, memory, conv, input, saved, calls, opened, bodyCount, parked>>

(* restoreObjectList on the flat records the client holds *)
restoreObjectList(objectSchemas) ==
    /\ \/ phase = "start" /\ input.form = "sav"
       \/ phase = "saved" /\ calls[Len(calls)].fn = "saveObjectList"
    /\ calls' = Append(calls, [fn |-> "restoreObjectList", objectSchemas |-> objectSchemas,
                               pathname |-> ""])
    /\ StartConvert("restore", objectSchemas,
                    IF phase = "start" THEN input.roots ELSE result,
                    <<ApiFrame("restoreObjectList", "", objectSchemas)>>, "restoring")
    /\ UNCHANGED <<heap, disk, fileOpen, input, saved, opened, parked>>

(* restoreDatabase up to the end of its try block: open, cPickle.load,     *)
(* close.  The client restores what it has just saved, or, holding no      *)
(* objects yet, any file there is.                                         *)
restoreDatabase(objectSchemas, pathname) ==
    /\ \/ /\ phase = "saved"
          /\ calls[Len(calls)].fn = "saveDatabase"
          /\ pathname = calls[Len(calls)].pathname
       \/ /\ phase = "start"
          /\ input.nobjs = 0
    /\ LET f == disk[pathname]
           unpickled == Unpickle(heap, f)
       IN  /\ calls' = Append(calls, [fn |-> "restoreDatabase",
                                      objectSchemas |-> objectSchemas,
                                      pathname |-> pathname])
           /\ IF ~f.exists THEN Raise("IOError") /\ UNCHANGED heap
              ELSE IF ~unpickled.ok THEN Raise(unpickled.exc) /\ UNCHANGED heap
              ELSE LET loaded == unpickled.val IN
                   /\ heap' = loaded.heap
                   /\ stack' = <<[ApiFrame("restoreDatabase", pathname, objectSchemas)
                                     EXCEPT !.version = loaded.version,
                                            !.ret = loaded.savedObjects]>>
                   /\ phase' = "restoring"
                   /\ UNCHANGED <<exc, result>>
    /\ UNCHANGED <<memory, conv, disk, fileOpen, input, saved, opened, bodyCount, parked>>

(* as restoreDatabaseConvert, with an upgrade at "should do upgrade stuff   *)
(* here": the records of another version are dropped                       *)
restoreDatabaseConvertUpgrading ==
    /\ Running("restoreDatabase")
    /\ Top.pc = "convert"
    /\ StartConvert("restore", Top.objectSchemas,
                    IF Top.version = VERSION THEN Top.ret ELSE <<>>,
                    <<[Top EXCEPT !.pc = "called"],
                      ApiFrame("restoreObjectList", "", Top.objectSchemas)>>, "restoring")
    /\ UNCHANGED <<heap, disk, fileOpen, input, saved, calls, opened, parked>>

(* return restoreObjectList(savedObjects, objectSchemas) *)
restoreDatabaseConvert ==
    /\ Running("restoreDatabase")
    /\ Top.pc = "convert"
    /\ StartConvert("restore", Top.objectSchemas, Top.ret,
                    <<[Top EXCEPT !.pc = "called"],
                      ApiFrame("restoreObjectList", "", Top.objectSchemas)>>, "restoring")
    /\ UNCHANGED <<heap, disk, fileOpen, input, saved, calls, opened, parked>>

(***************************************************************************)
(* ConverterBase.convertObjectList, convertData, convertList, convertDict  *)
(* and convertObject.  An action runs the innermost frame up to its next   *)
(* call, return or raise.                                                  *)
(***************************************************************************)
convertObjectList ==
    /\ Running("convertObjectList")
    /\ LET f == Top
           retval == IF f.pc = "called" THEN Append(f.retval, f.ret) ELSE f.retval
           i == IF f.pc = "called" THEN f.i + 1 ELSE f.i
       IN  IF i <= Len(f.todo)
           THEN /\ stack' = Call([f EXCEPT !.retval = retval, !.i = i], "called",
                                 ConvertDataFrame(f.todo[i][1], f.todo[i][2]))
                /\ UNCHANGED <<phase, exc, result, saved>>
           ELSE /\ Return(retval)
                /\ saved' = IF conv.dir = "save" THEN retval ELSE saved
    /\ UNCHANGED <<heap, memory, conv, disk, fileOpen, input, calls, opened, bodyCount, parked>>

(* as convertData, but the schema item is looked at before the data is     *)
(* tested for None                                                         *)
convertDataNoneLate ==
    /\ Running("convertData")
    /\ Top.pc = "start"
    /\ LET f == Top IN
       IF ~preValidate(conv, heap, f.data, f.schema)
       THEN \E kind \in handleValidationError(conv) : Raise(kind)
       ELSE IF f.schema.t = "simple"
       THEN IF ~postValidate(conv, heap, f.data, f.schema)
            THEN \E kind \in handleValidationError(conv) : Raise(kind)
            ELSE Return(f.data)
       ELSE IF f.schema.t = "list"
       THEN /\ stack' = Call(f, "called", ConvertListFrame(f.data, f.schema))
            /\ UNCHANGED <<phase, exc, result>>
       ELSE IF f.schema.t = "dict"
       THEN /\ stack' = Call(f, "called", ConvertDictFrame(f.data, f.schema))
            /\ UNCHANGED <<phase, exc, result>>
       ELSE IF f.schema.t = "object"
       THEN /\ stack' = Call(f, "called", ConvertObjectFrame(f.data, f.schema))
            /\ UNCHANGED <<phase, exc, result>>
       ELSE Raise("ValueError")
    /\ UNCHANGED <<heap, memory, conv, disk, fileOpen, input, saved, calls, opened, bodyCount, parked>>

(* convertData from preValidate to the call that converts the data, or to  *)
(* its return when the data is None or a simple item                       *)
convertData ==
    /\ Running("convertData")
    /\ Top.pc = "start"
    /\ LET f == Top IN
       IF ~preValidate(conv, heap, f.data, f.schema)
       THEN \E kind \in handleValidationError(conv) : Raise(kind)
       ELSE IF f.data = None \/ f.schema.t = "simple"
       THEN (* rv = None or rv = data: no call, on to postValidate and return *)
            LET rv == IF f.data = None THEN None ELSE f.data IN
            IF ~postValidate(conv, heap, rv, f.schema)
            THEN \E kind \in handleValidationError(conv) : Raise(kind)
            ELSE Return(rv)
       ELSE IF f.schema.t = "list"
       THEN /\ stack' = Call(f, "called", ConvertListFrame(f.data, f.schema))
            /\ UNCHANGED <<phase, exc, result>>
       ELSE IF f.schema.t = "dict"
       THEN /\ stack' = Call(f, "called", ConvertDictFrame(f.data, f.schema))
            /\ UNCHANGED <<phase, exc, result>>
       ELSE IF f.schema.t = "object"
       THEN /\ stack' = Call(f, "called", ConvertObjectFrame(f.data, f.schema))
            /\ UNCHANGED <<phase, exc, result>>
       ELSE Raise("ValueError")
    /\ UNCHANGED <<heap, memory, conv, disk, fileOpen, input, saved, calls, opened, bodyCount, parked>>

(* convertData after convertList, convertDict or convertObject returned:   *)
(* postValidate and return                                                 *)
convertDataPost ==
    /\ Running("convertData")
    /\ Top.pc = "called"
    /\ LET f == Top
           rv == f.ret
       IN  IF ~postValidate(conv, heap, rv, f.schema)
           THEN \E kind \in handleValidationError(conv) : Raise(kind)
           ELSE Return(rv)
    /\ UNCHANGED <<heap, memory, conv, disk, fileOpen, input, saved, calls, opened, bodyCount, parked>>

(* as convertList, but the list made for a source list is kept in memory   *)
(* and returned when the source list is met again                          *)
convertListMemoized ==
    /\ Running("convertList")
    /\ LET f == Top IN
       IF ~IsCell(heap, f.list, "list")
       THEN Raise("TypeError") /\ UNCHANGED <<heap, memory>>
       ELSE IF f.pc = "start" /\ f.list.v \in DOMAIN memory
       THEN Return(Ref(memory[f.list.v])) /\ UNCHANGED <<heap, memory>>
       ELSE LET rv == IF f.pc = "start" THEN Len(heap) + 1 ELSE f.rv
                h1 == IF f.pc = "start" THEN Append(heap, ListCell(<<>>)) ELSE heap
                h2 == IF f.pc = "called"
                      THEN [h1 EXCEPT ![rv].elems = Append(@, f.ret)] ELSE h1
                i == IF f.pc = "called" THEN f.i + 1 ELSE f.i
            IN  /\ heap' = h2
                /\ memory' = (f.list.v :> rv) @@ memory
                /\ IF i <= Len(heap[f.list.v].elems)
                   THEN /\ stack' = Call([f EXCEPT !.rv = rv, !.i = i], "called",
                               ConvertDataFrame(heap[f.list.v].elems[i], f.schema.childSchema))
                        /\ UNCHANGED <<phase, exc, result>>
                   ELSE Return(Ref(rv))
    /\ UNCHANGED <<conv, disk, fileOpen, input, saved, calls, opened, bodyCount, parked>>

(* as convertList, but the converted child is also stored into the list   *)
(* that is being converted                                                 *)
convertListInPlace ==
    /\ Running("convertList")
    /\ LET f == Top IN
       IF ~IsCell(heap, f.list, "list")
       THEN Raise("TypeError") /\ UNCHANGED heap
       ELSE LET rv == IF f.pc = "start" THEN Len(heap) + 1 ELSE f.rv
                h1 == IF f.pc = "start" THEN Append(heap, ListCell(<<>>)) ELSE heap
                h2 == IF f.pc = "called"
                      THEN [h1 EXCEPT ![rv].elems = Append(@, f.ret),
                                      ![f.list.v].elems[f.i] = f.ret]
                      ELSE h1
                i == IF f.pc = "called" THEN f.i + 1 ELSE f.i
            IN  /\ heap' = h2
                /\ IF i <= Len(heap[f.list.v].elems)
                   THEN /\ stack' = Call([f EXCEPT !.rv = rv, !.i = i], "called",
                               ConvertDataFrame(heap[f.list.v].elems[i], f.schema.childSchema))
                        /\ UNCHANGED <<phase, exc, result>>
                   ELSE Return(Ref(rv))
    /\ UNCHANGED <<memory, conv, disk, fileOpen, input, saved, calls, opened, bodyCount, parked>>

(* as convertList, but each converted child is put at the front of rv *)
convertListReversed ==
    /\ Running("convertList")
    /\ LET f == Top IN
       IF ~IsCell(heap, f.list, "list")
       THEN Raise("TypeError") /\ UNCHANGED heap
       ELSE LET rv == IF f.pc = "start" THEN Len(heap) + 1 ELSE f.rv
                h1 == IF f.pc = "start" THEN Append(heap, ListCell(<<>>)) ELSE heap
                h2 == IF f.pc = "called"
                      THEN [h1 EXCEPT ![rv].elems = <<f.ret>> \o @] ELSE h1
                i == IF f.pc = "called" THEN f.i + 1 ELSE f.i
            IN  /\ heap' = h2
                /\ IF i <= Len(heap[f.list.v].elems)
                   THEN /\ stack' = Call([f EXCEPT !.rv = rv, !.i = i], "called",
                               ConvertDataFrame(heap[f.list.v].elems[i], f.schema.childSchema))
                        /\ UNCHANGED <<phase, exc, result>>
                   ELSE Return(Ref(rv))
    /\ UNCHANGED <<memory, conv, disk, fileOpen, input, saved, calls, opened, bodyCount, parked>>

convertList ==
    /\ Running("convertList")
    /\ LET f == Top IN
       IF ~IsCell(heap, f.list, "list")
       THEN Raise("TypeError") /\ UNCHANGED heap
       ELSE LET rv == IF f.pc = "start" THEN Len(heap) + 1 ELSE f.rv
                h1 == IF f.pc = "start" THEN Append(heap, ListCell(<<>>)) ELSE heap
                h2 == IF f.pc = "called"
                      THEN [h1 EXCEPT ![rv].elems = Append(@, f.ret)] ELSE h1
                i == IF f.pc = "called" THEN f.i + 1 ELSE f.i
            IN  /\ heap' = h2
                /\ IF i <= Len(heap[f.list.v].elems)
                   THEN /\ stack' = Call([f EXCEPT !.rv = rv, !.i = i], "called",
                               ConvertDataFrame(heap[f.list.v].elems[i], f.schema.childSchema))
                        /\ UNCHANGED <<phase, exc, result>>
                   ELSE Return(Ref(rv))
    /\ UNCHANGED <<memory, conv, disk, fileOpen, input, saved, calls, opened, bodyCount, parked>>

convertDict ==
    /\ Running("convertDict")
    /\ LET f == Top IN
       IF ~IsCell(heap, f.dict, "dict")
       THEN Raise("AttributeError") /\ UNCHANGED heap
       ELSE LET items == heap[f.dict.v].elems
                rv == IF f.pc = "start" THEN Len(heap) + 1 ELSE f.rv
                h1 == IF f.pc = "start" THEN Append(heap, DictCell(<<>>)) ELSE heap
            IN  IF f.pc = "key"
                THEN (* the key is converted: convert the value *)
                     /\ heap' = h1
                     /\ stack' = Call([f EXCEPT !.newKey = f.ret], "value",
                            ConvertDataFrame(items[f.i][2], f.schema.valueSchema))
                     /\ UNCHANGED <<phase, exc, result>>
                ELSE IF f.pc = "value" /\ IsRef(f.newKey)
                                       /\ heap[f.newKey.v].kind \in {"list", "dict"}
                THEN Raise("TypeError") /\ UNCHANGED heap
                ELSE LET h2 == IF f.pc = "value"
                               THEN [h1 EXCEPT ![rv].elems = DictSet(@, f.newKey, f.ret)]
                               ELSE h1
                         i == IF f.pc = "value" THEN f.i + 1 ELSE f.i
                     IN  /\ heap' = h2
                         /\ IF i <= Len(items)
                            THEN /\ stack' = Call([f EXCEPT !.rv = rv, !.i = i], "key",
                                        ConvertDataFrame(items[i][1], f.schema.keySchema))
                                 /\ UNCHANGED <<phase, exc, result>>
                            ELSE Return(Ref(rv))
    /\ UNCHANGED <<memory, conv, disk, fileOpen, input, saved, calls, opened, bodyCount, parked>>

(* if id(object) in memory: return memory[id(object)] *)
convertObjectCheck ==
    /\ Running("convertObject")
    /\ Top.pc = "check"
    /\ IF Memoized(memory, Top.object)
       THEN Return(Ref(memory[Top.object.v]))
       ELSE /\ stack' = [stack EXCEPT ![Len(stack)].pc = "new"]
            /\ UNCHANGED <<phase, exc, result>>
    /\ UNCHANGED <<heap, memory, conv, disk, fileOpen, input, saved, calls, opened, bodyCount, parked>>

(* as convertObjectNew, but with one target kept per class and used again *)
convertObjectNewCached ==
    /\ Running("convertObject")
    /\ Top.pc = "new"
    /\ LET f == Top
           os == getObjectSchema(conv, heap, f.object, f.schema)
       IN  IF ~os.ok THEN Raise(os.exc) /\ UNCHANGED heap
           ELSE LET new == makeNewConvert(conv, os.val.classString)
                    made == {a \in {memory[b] : b \in DOMAIN memory} : heap[a].cls = new.cls}
                    target == IF made = {} THEN Len(heap) + 1 ELSE CHOOSE a \in made : TRUE
                IN  /\ heap' = IF made = {} THEN Append(heap, new) ELSE heap
                    /\ stack' = [stack EXCEPT ![Len(stack)] =
                                    [f EXCEPT !.objectSchema = os.val,
                                              !.convertedObject = target,
                                              !.pc = "memo"]]
                    /\ UNCHANGED <<phase, exc, result>>
    /\ UNCHANGED <<memory, conv, disk, fileOpen, input, saved, calls, opened, bodyCount, parked>>

(* objectSchema = self.getObjectSchema(object); convertedObject = makeNewConvert(...) *)
convertObjectNew ==
    /\ Running("convertObject")
    /\ Top.pc = "new"
    /\ LET f == Top
           os == getObjectSchema(conv, heap, f.object, f.schema)
       IN  IF ~os.ok THEN Raise(os.exc) /\ UNCHANGED heap
           ELSE /\ heap' = Append(heap, makeNewConvert(conv, os.val.classString))
                /\ stack' = [stack EXCEPT ![Len(stack)] =
                                [f EXCEPT !.objectSchema = os.val,
                                          !.convertedObject = Len(heap) + 1,
                                          !.pc = "memo"]]
                /\ UNCHANGED <<phase, exc, result>>
    /\ UNCHANGED <<memory, conv, disk, fileOpen, input, saved, calls, opened, bodyCount, parked>>

(* memory[id(object)] = convertedObject *)
convertObjectMemo ==
    /\ Running("convertObject")
    /\ Top.pc = "memo"
    /\ memory' = Memorize(memory, Top.object, Top.convertedObject)
    /\ stack' = [stack EXCEPT ![Len(stack)].pc = "fields"]
    /\ bodyCount' = (Top.object.v :>
                        (IF Top.object.v \in DOMAIN bodyCount
                         THEN bodyCount[Top.object.v] + 1 ELSE 1)) @@ bodyCount
    /\ UNCHANGED <<heap, conv, phase, exc, result, disk, fileOpen, input, saved, calls, opened, parked>>

(* the loop over objectSchema.fields, and the final return *)
convertObjectFields ==
    /\ Running("convertObject")
    /\ Top.pc \in {"fields", "called"}
    /\ LET f == Top
           fields == f.objectSchema.fields
           h1 == IF f.pc = "called"
                 THEN setTargetAttr(heap, f.convertedObject, fields[f.i][1], f.ret)
                 ELSE heap
           i == IF f.pc = "called" THEN f.i + 1 ELSE f.i
       IN  IF i <= Len(fields)
           THEN LET data == getSourceAttr(conv, heap, f.object, fields[i][1]) IN
                IF ~data.ok THEN Raise(data.exc) /\ heap' = h1
                ELSE /\ heap' = h1
                     /\ stack' = Call([f EXCEPT !.i = i], "called",
                                      ConvertDataFrame(data.val, fields[i][2]))
                     /\ UNCHANGED <<phase, exc, result>>
           ELSE /\ heap' = h1
                /\ Return(Ref(f.convertedObject))
    /\ UNCHANGED <<memory, conv, disk, fileOpen, input, saved, calls, opened, bodyCount, parked>>

Next ==
    \/ \E objectSchemas \in SchemasArgs : saveObjectList(objectSchemas)
    \/ \E objectSchemas \in SchemasArgs, pathname \in Paths :
          saveDatabase(objectSchemas, pathname)
    \/ saveDatabaseOpen
    \/ saveDatabaseDump
    \/ \E objectSchemas \in SchemasArgs : restoreObjectList(objectSchemas)
    \/ \E objectSchemas \in SchemasArgs, pathname \in DOMAIN InitDisk :
          restoreDatabase(objectSchemas, pathname)
    \/ restoreDatabaseConvert
    \/ convertObjectList
    \/ convertData
    \/ convertDataPost
    \/ convertList
    \/ convertDict
    \/ convertObjectCheck
    \/ convertObjectNew
    \/ convertObjectMemo
    \/ convertObjectFields

Spec == Init /\ [][Next]_vars

(***************************************************************************)
(* Comparing object graphs.                                                *)
(***************************************************************************)
Min(a, b) == IF a < b THEN a ELSE b

RefsOf(values) == {values[i].v : i \in {j \in 1..Len(values) : IsRef(values[j])}}

(* the cells reachable from the addresses in S, S included *)
RECURSIVE Reach(_, _)
Reach(h, S) ==
    LET N == S \cup UNION {RefsOf(Children(h[a])) : a \in S}
    IN  IF N = S THEN S ELSE Reach(h, N)

Acyclic(h, S) == \A a \in Reach(h, S) : a \notin Reach(h, RefsOf(Children(h[a])))

(* the pairs of cells met at the same place when two graphs are walked side by side *)
ChildPairs(h, p) ==
    LET ca == h[p[1]]
        cb == h[p[2]]
    IN  {<<ca.attrs[f].v, cb.attrs[f].v>> :
            f \in {g \in DOMAIN ca.attrs \cap DOMAIN cb.attrs :
                      IsRef(ca.attrs[g]) /\ IsRef(cb.attrs[g])}}
        \cup (IF ca.kind = "list" /\ cb.kind = "list"
              THEN {<<ca.elems[i].v, cb.elems[i].v>> :
                       i \in {j \in 1..Min(Len(ca.elems), Len(cb.elems)) :
                                 IsRef(ca.elems[j]) /\ IsRef(cb.elems[j])}}
              ELSE {})
        \cup (IF ca.kind = "dict" /\ cb.kind = "dict"
              THEN {<<ca.elems[q[1]][2].v, cb.elems[q[2]][2].v>> :
                       q \in {r \in (1..Len(ca.elems)) \X (1..Len(cb.elems)) :
                                 /\ ca.elems[r[1]][1] = cb.elems[r[2]][1]
                                 /\ IsRef(ca.elems[r[1]][2])
                                 /\ IsRef(cb.elems[r[2]][2])}}
              ELSE {})

RECURSIVE PairsFrom(_, _)
PairsFrom(h, P) ==
    LET N == P \cup UNION {ChildPairs(h, p) : p \in P}
    IN  IF N = P THEN P ELSE PairsFrom(h, N)

Pairs(h, ra, rb) ==
    PairsFrom(h, {<<ra[i].v, rb[i].v>> : i \in 1..Min(Len(ra), Len(rb))})

SameValue(x, y) == IF IsRef(x) \/ IsRef(y) THEN IsRef(x) /\ IsRef(y) ELSE x = y

(* the two cells agree in everything but the identity of what they refer to; *)
(* how is "same" between graphs of one form, "flat" from live to flat form,  *)
(* "live" from flat to live form                                             *)
SameCell(ca, cb, how) ==
    CASE ca.kind \in {"obj", "sav"} ->
           /\ cb.kind = (IF how = "same" THEN ca.kind
                         ELSE IF how = "live" THEN "obj" ELSE "sav")
           /\ IF how = "same" THEN cb.cls = ca.cls
              ELSE IF how = "live" THEN ClassStringOf(cb.cls) = ca.cls
              ELSE cb.cls = ClassStringOf(ca.cls)
           /\ DOMAIN ca.attrs = DOMAIN cb.attrs
           /\ \A f \in DOMAIN ca.attrs : SameValue(ca.attrs[f], cb.attrs[f])
      [] ca.kind = "list" ->
           /\ cb.kind = "list"
           /\ Len(ca.elems) = Len(cb.elems)
           /\ \A i \in 1..Len(ca.elems) : SameValue(ca.elems[i], cb.elems[i])
      [] ca.kind = "dict" ->
           /\ cb.kind = "dict"
           /\ {ca.elems[i][1] : i \in 1..Len(ca.elems)} = {cb.elems[i][1] : i \in 1..Len(cb.elems)}
           /\ Len(ca.elems) = Len(cb.elems)
           /\ \A i \in 1..Len(ca.elems), j \in 1..Len(cb.elems) :
                 ca.elems[i][1] = cb.elems[j][1] => SameValue(ca.elems[i][2], cb.elems[j][2])

StructurallyEqual(h, ra, rb, how) ==
    /\ Len(ra) = Len(rb)
    /\ \A p \in Pairs(h, ra, rb) : SameCell(h[p[1]], h[p[2]], how)

IsInstance(h, a) == h[a].kind \in {"obj", "sav"}

(* one and the same target for every occurrence of a source object *)
IdentityKept(h, ra, rb) ==
    \A p, q \in Pairs(h, ra, rb) :
        IsInstance(h, p[1]) /\ p[1] = q[1] => p[2] = q[2]

(* and different targets for different source objects *)
IdentityExact(h, ra, rb) ==
    \A p, q \in Pairs(h, ra, rb) :
        IsInstance(h, p[1]) /\ IsInstance(h, q[1]) => (p[1] = q[1] <=> p[2] = q[2])

(***************************************************************************)
(* Two calls in two threads.  What a call works with belongs to the call:  *)
(* its frames, the converter saveObjectList or restoreObjectList made for  *)
(* it, the memory dict convertObjectList made for it, its arguments and    *)
(* what it returned.  The heap is shared.  One call runs while the other   *)
(* is parked, and the interpreter may switch between any two steps.        *)
(***************************************************************************)
Locals ==
    [stack |-> stack, memory |-> memory, conv |-> conv, phase |-> phase,
     exc |-> exc, result |-> result, input |-> input, saved |-> saved,
     calls |-> calls, bodyCount |-> bodyCount]

(* memory = {} in convertObjectList: the dict is a local of the call *)
memoryOfModule(call) == memory
memoryOf(call) == call.memory

(* two calls on the same list are made one after the other *)
Switch ==
    /\ parked # <<>>
    /\ input.roots = parked.input.roots => stack = <<>>
    /\ parked' = Locals
    /\ stack' = parked.stack
    /\ memory' = memoryOf(parked)
    /\ conv' = parked.conv
    /\ phase' = parked.phase
    /\ exc' = parked.exc
    /\ result' = parked.result
    /\ input' = parked.input
    /\ saved' = parked.saved
    /\ calls' = parked.calls
    /\ bodyCount' = parked.bodyCount
    /\ UNCHANGED <<heap, disk, fileOpen, opened>>

(* the objects of the graph that are reachable from the objects in R *)
ObjectsFrom(h, n, R) == {a \in Reach(h, R) : a <= n}

(* two argument lists on one heap: the same list twice (of fewer than     *)
(* MaxObjs objects), or the objects of two graphs that have no cell in     *)
(* common; a list holds the objects reachable from its first one, live     *)
(* objects to be saved or flat records to be restored                      *)
InitTwo ==
    /\ \E n \in 1..MaxObjs :
         \E cls \in [1..n -> {"Feed", "Item", "FileItem"}] :
           /\ Sorted(cls)
           /\ \E descs \in {g \in Graphs(cls, n) : \A a \in 1..n : g[a].share = 0} :
                \E R1, R2 \in SUBSET (1..n) \ {{}}, form1, form2 \in {"obj", "sav"} :
                  LET live == BuildHeap(descs, "obj", NoDefect)
                      flat == BuildHeap(descs, "sav", NoDefect)
                      h == [a \in DOMAIN live |->
                               IF a \in Reach(live, R1)
                               THEN (IF form1 = "obj" THEN live[a] ELSE flat[a])
                               ELSE (IF form2 = "obj" THEN live[a] ELSE flat[a])]
                      args(R, form) ==
                          [form |-> form, roots |-> Ascending(R, n),
                           nobjs |-> n, defect |-> NoDefect, heap |-> h]
                      first(R) == CHOOSE a \in R : \A b \in R : a <= b
                  IN  /\ R1 = R2 => form1 = form2
                      /\ ObjectsFrom(h, n, {first(R1)}) = R1
                      /\ ObjectsFrom(h, n, {first(R2)}) = R2
                      /\ R1 \cup R2 = 1..n
                      /\ 1 \in R1
                      /\ \/ R1 = R2 /\ n < MaxObjs
                         \/ Reach(h, R1) \cap Reach(h, R2) = {}
                      /\ heap = h
                      /\ input = args(R1, form1)
                      /\ parked = [stack |-> <<>>, memory |-> <<>>, conv |-> <<>>,
                                   phase |-> "start", exc |-> "", result |-> <<>>,
                                   input |-> args(R2, form2), saved |-> <<>>,
                                   calls |-> <<>>, bodyCount |-> <<>>]
    /\ stack = <<>>
    /\ memory = <<>>
    /\ conv = <<>>
    /\ phase = "start"
    /\ exc = ""
    /\ result = <<>>
    /\ disk = InitDisk
    /\ fileOpen = ""
    /\ saved = <<>>
    /\ calls = <<>>
    /\ opened = {}
    /\ bodyCount = <<>>

(* each thread makes one call, with the schema set *)
NextTwo ==
    \/ saveObjectList(TestSchemas)
    \/ phase = "start" /\ restoreObjectList(TestSchemas)
    \/ convertObjectList
    \/ convertData
    \/ convertDataPost
    \/ convertList
    \/ convertDict
    \/ convertObjectCheck
    \/ convertObjectNew
    \/ convertObjectMemo
    \/ convertObjectFields
    \/ Switch

SpecTwo == InitTwo /\ [][NextTwo]_vars

(***************************************************************************)
(* Two container files with the same records and different versions.  The  *)
(* client, holding no objects, restores the first file and then, from its  *)
(* second thread, the other file with the same schema set.                 *)
(***************************************************************************)
VersionsOther == {VERSION - 1, VERSION + 1}

InitVer ==
    /\ \E n \in 1..MaxObjs :
         \E cls \in [1..n -> {"Feed", "Item", "FileItem"}] :
           /\ Sorted(cls)
           /\ \E descs \in Graphs(cls, n), other \in VersionsOther :
                LET records == BuildHeap(descs, "sav", NoDefect)
                    file(version) ==
                        [exists |-> TRUE,
                         data |-> <<PickleDump(records, version, Ascending(1..n, n))>>]
                IN  disk = ("a.db" :> file(VERSION)) @@ ("b.db" :> file(other))
    /\ heap = <<>>
    /\ input = [form |-> "sav", roots |-> <<>>, nobjs |-> 0, defect |-> NoDefect,
                heap |-> <<>>]
    /\ parked = [stack |-> <<>>, memory |-> <<>>, conv |-> <<>>,
                 phase |-> "start", exc |-> "", result |-> <<>>,
                 input |-> [form |-> "sav", roots |-> <<>>, nobjs |-> 0,
                            defect |-> NoDefect, heap |-> <<>>],
                 saved |-> <<>>, calls |-> <<>>, bodyCount |-> <<>>]
    /\ stack = <<>>
    /\ memory = <<>>
    /\ conv = <<>>
    /\ phase = "start"
    /\ exc = ""
    /\ result = <<>>
    /\ fileOpen = ""
    /\ saved = <<>>
    /\ calls = <<>>
    /\ opened = {}
    /\ bodyCount = <<>>

NextVer ==
    \/ \E objectSchemas \in {TestSchemas, BadSchemas}, pathname \in {"a.db", "b.db"} :
          /\ parked.calls = <<>> => pathname = "a.db"
          /\ parked.calls # <<>> => /\ pathname = "b.db"
                                    /\ objectSchemas = parked.calls[1].objectSchemas
          /\ restoreDatabase(objectSchemas, pathname)
    \/ restoreDatabaseConvert
    \/ convertObjectList
    \/ convertData
    \/ convertDataPost
    \/ convertList
    \/ convertDict
    \/ convertObjectCheck
    \/ convertObjectNew
    \/ convertObjectMemo
    \/ convertObjectFields
    \/ Switch

SpecVer == InitVer /\ [][NextVer]_vars

(***************************************************************************)
(* What the client did, and what it started from.                          *)
(***************************************************************************)
(* the converter of the first call, when that call names its schema set *)
SaveConv ==
    Converter("save", IF calls # <<>> /\ calls[1].objectSchemas # NoSchemas
                      THEN calls[1].objectSchemas ELSE TestSchemas)
Registered == DOMAIN SaveConv.classesToStrings

CallNames == [i \in 1..Len(calls) |-> calls[i].fn]
ExplicitSchemas == \A i \in 1..Len(calls) : calls[i].objectSchemas = TestSchemas

RootsRegistered ==
    \A i \in 1..Len(input.roots) : input.heap[input.roots[i].v].cls \in Registered

(* the roots save converts: those of a registered class *)
SavedRoots == SavablePrepareObjectList(SaveConv, input.heap, input.roots, Len(input.roots))
ConvertedRoots == [i \in 1..Len(SavedRoots) |-> SavedRoots[i][1]]

(* every value the save walk meets fits the schema item it is met under *)
Conforms(h, roots) ==
    \A a \in Reach(h, RefsOf(roots)) :
        h[a].kind = "obj" =>
            /\ h[a].cls \in Registered
            /\ LET fields == SaveConv.objectSchemaLookup[h[a].cls].fields IN
               \A i \in 1..Len(fields) :
                  /\ fields[i][1] \in DOMAIN h[a].attrs
                  /\ Validate(h, SaveConv, h[a].attrs[fields[i][1]], fields[i][2])

LiveInput == input.form = "obj"
ValidInput == LiveInput /\ Conforms(input.heap, ConvertedRoots)
AcyclicInput == Acyclic(input.heap, RefsOf(input.roots))

ListRoundTrip == CallNames = <<"saveObjectList", "restoreObjectList">>
FileRoundTrip == CallNames = <<"saveDatabase", "restoreDatabase">>

(***************************************************************************)
(* C1  Round-trip identity.  For an acyclic graph of live objects whose    *)
(* roots all have registered classes and whose values all conform,         *)
(* saveObjectList and then restoreObjectList (with the schema set given)   *)
(* do not raise, and the restored list has the length of the input and is  *)
(* equal to it cell by cell: same class, same attribute names, equal       *)
(* scalars, lists equal in order and length, dicts equal as entry sets.    *)
(***************************************************************************)
C1_RoundTripIdentity ==
    (/\ phase \in {"failed", "done"}
     /\ ExplicitSchemas
     /\ \A i \in 1..Len(calls) : calls[i].fn \in {"saveObjectList", "restoreObjectList"}
     /\ ValidInput /\ RootsRegistered /\ AcyclicInput)
    => /\ phase = "done"
       /\ Len(result) = Len(input.roots)
       /\ \A i \in 1..Len(result) :
             heap[result[i].v].cls = input.heap[input.roots[i].v].cls
       /\ StructurallyEqual(heap, input.roots, result, "same")

C1_Witness ==
    /\ phase = "done" /\ ListRoundTrip /\ ValidInput /\ RootsRegistered /\ AcyclicInput
    /\ Len(result) = 2
    /\ \E a \in Reach(heap, RefsOf(result)) : heap[a].kind = "list" /\ Len(heap[a].elems) = 2
    /\ \E a \in Reach(heap, RefsOf(result)) : heap[a].kind = "dict" /\ Len(heap[a].elems) > 0

(***************************************************************************)
(* C2  Reference preservation.  Wherever the walk of the source graph      *)
(* meets one source object again, the converted graph holds one and the    *)
(* same target there: from live objects to flat records, from flat records *)
(* to live objects, and over the round trip of saveObjectList and          *)
(* restoreObjectList.                                                       *)
(***************************************************************************)
C2_ReferencePreservation ==
    /\ (phase = "saved" => IdentityKept(heap, ConvertedRoots, saved))
    /\ (phase = "done" /\ CallNames = <<"restoreObjectList">>
            => IdentityKept(heap, input.roots, result))
    /\ (phase = "done" /\ ListRoundTrip
            => /\ IdentityKept(heap, saved, result)
               /\ IdentityKept(heap, ConvertedRoots, result))

(* two restored roots that are different objects and hold the same third object *)
C2_Witness ==
    /\ phase = "done" /\ ListRoundTrip
    /\ Len(result) = 2
    /\ Len(input.roots) = 2
    /\ result[1] # result[2]
    /\ \A i \in 1..2 : heap[result[i].v].cls \in {"Item", "FileItem"}
    /\ input.heap[input.roots[1].v].attrs["feed"] = input.heap[input.roots[2].v].attrs["feed"]
    /\ IsRef(heap[result[1].v].attrs["feed"])
    /\ heap[result[1].v].attrs["feed"] = heap[result[2].v].attrs["feed"]
    /\ heap[result[1].v].attrs["feed"] \notin {result[1], result[2]}

(***************************************************************************)
(* C3  Cycle safety.  In either direction convertObject enters its field   *)
(* loop at most once per source object, the recursion is never deeper than *)
(* two frames per cell of the graph (plus the frames around the walk),     *)
(* and a conforming graph with a reference cycle goes through save and     *)
(* restore (by list or by file) without an exception and comes back with   *)
(* the same shape: cell by cell equal, and the same object exactly where   *)
(* the original has the same object.                                       *)
(***************************************************************************)
C3_CycleSafety ==
    /\ \A a \in DOMAIN bodyCount : bodyCount[a] <= 1
    /\ Len(stack) <= 2 * Len(input.heap) + 6
    /\ (/\ phase \in {"failed", "done"}
        /\ ExplicitSchemas
        /\ ValidInput /\ ~AcyclicInput)
       => /\ phase = "done"
          /\ StructurallyEqual(heap, ConvertedRoots, result, "same")
          /\ IdentityExact(heap, ConvertedRoots, result)

(* restored A holds B (in a list) and B holds the restored A itself *)
C3_Witness ==
    /\ phase = "done" /\ ListRoundTrip /\ ~AcyclicInput
    /\ \E a \in RefsOf(result) :
          /\ heap[a].cls = "Feed"
          /\ \E i \in 1..Len(heap[heap[a].attrs["items"].v].elems) :
                LET b == heap[heap[a].attrs["items"].v].elems[i].v
                IN  /\ heap[b].attrs["feed"] = Ref(a)
                    /\ \E r \in DOMAIN memory : memory[r] = b /\ bodyCount[r] = 1

NoUnknownTag == \A a \in 1..input.nobjs : input.heap[a].cls # "widget"

(***************************************************************************)
(* C4  Restore side of the validation asymmetry, as claimed: given a flat  *)
(* record with a field of the wrong scalar kind, restoreObjectList does    *)
(* not raise.  (The code raises from handleValidationError.)               *)
(***************************************************************************)
C4_RestoreDoesNotRaise ==
    (/\ CallNames = <<"restoreObjectList">>
     /\ ExplicitSchemas
     /\ input.form = "sav"
     /\ input.defect.field \in {"title", "name"}
     /\ NoUnknownTag)
    => phase # "failed"

(***************************************************************************)
(* C5  Save side of the validation asymmetry.  When a value reachable from *)
(* the objects saveObjectList converts does not conform to its schema      *)
(* item, the call ends with a ValidationError and returns nothing: no list *)
(* of flat records reaches the caller.                                     *)
(***************************************************************************)
C5_SaveRaises ==
    (/\ phase \in {"saved", "done", "failed"}
     /\ LiveInput
     /\ calls[1].objectSchemas = TestSchemas
     /\ ~Conforms(input.heap, ConvertedRoots))
    => /\ phase = "failed"
       /\ exc = "ValidationError"
       /\ Len(calls) = 1
       /\ result = <<>>
       /\ saved = <<>>

(* the defect sits in a dict two levels below the root that was passed *)
C5_Witness ==
    /\ phase = "failed" /\ exc = "ValidationError"
    /\ CallNames = <<"saveObjectList">>
    /\ input.defect.field = "tags"
    /\ input.nobjs = 3

(***************************************************************************)
(* C6  saveDatabase opens the file only after saveObjectList has returned: *)
(* while the conversion runs and after it has failed, no path was opened   *)
(* for writing and the disk is as it was.                                  *)
(***************************************************************************)
C6_OpenAfterConvert ==
    (/\ calls # <<>>
     /\ calls[1].fn = "saveDatabase"
     /\ \/ phase = "failed" /\ Len(calls) = 1
        \/ phase = "saving" /\ ~Running("saveDatabase"))
    => opened = {} /\ disk = InitDisk /\ fileOpen = ""

(* a failed save to the path that already held a file *)
C6_Witness ==
    /\ phase = "failed"
    /\ CallNames = <<"saveDatabase">>
    /\ calls[1].pathname = "old.db"
    /\ exc = "ValidationError"
    /\ disk["old.db"] = OldFile

(***************************************************************************)
(* C7  The Feed/Item scenario.  One Feed with two Items that refer back to *)
(* it, saved with saveDatabase and restored with restoreDatabase from the  *)
(* same path (schema set given): the restored Feed has exactly two items,  *)
(* the feed of each is the restored Feed itself, title and names are the   *)
(* original ones.                                                          *)
(***************************************************************************)
Scenario ==
    /\ LiveInput
    /\ input.nobjs = 3
    /\ input.roots # <<>> /\ input.roots[1] = Ref(1)
    /\ input.heap[1] = ObjCell("Feed", ("title" :> PyText(1)) @@ ("items" :> Ref(4)))
    /\ input.heap[2] = ObjCell("Item", ("name" :> PyText(2)) @@ ("feed" :> Ref(1)))
    /\ input.heap[3] = ObjCell("Item", ("name" :> PyText(3)) @@ ("feed" :> Ref(1)))
    /\ input.heap[4] = ListCell(<<Ref(2), Ref(3)>>)

C7_FeedScenario ==
    (/\ phase \in {"failed", "done"}
     /\ Scenario
     /\ ExplicitSchemas
     /\ \A i \in 1..Len(calls) : calls[i].fn \in {"saveDatabase", "restoreDatabase"})
    => /\ phase = "done"
       /\ LET feed == result[1]
              items == heap[heap[feed.v].attrs["items"].v].elems
          IN  /\ heap[feed.v].kind = "obj" /\ heap[feed.v].cls = "Feed"
              /\ heap[feed.v].attrs["title"] = PyText(1)
              /\ Len(items) = 2
              /\ items[1] # items[2]
              /\ \A i \in 1..2 :
                    /\ heap[items[i].v].kind = "obj" /\ heap[items[i].v].cls = "Item"
                    /\ heap[items[i].v].attrs["feed"] = feed
                    /\ heap[items[i].v].attrs["name"] = PyText(1 + i)
              /\ \A k \in 2..Len(result) :
                    \E i \in 1..2 : input.roots[k] = Ref(1 + i) /\ result[k] = items[i]

C7_Witness ==
    /\ phase = "done" /\ Scenario /\ FileRoundTrip
    /\ Len(result) = 1
    /\ calls[1].pathname = "old.db"

(***************************************************************************)
(* C8  Polymorphic dispatch.  The flat record made for a live object has   *)
(* the class string of the object's own class and, once the object is      *)
(* converted, exactly the fields of that class's ObjectSchema, whatever    *)
(* class the schema item it was reached under names.                       *)
(***************************************************************************)
C8_PolymorphicDispatch ==
    conv # <<>> /\ conv.dir = "save" /\ phase \in {"saving", "saved"}
    => \A a \in DOMAIN memory :
          /\ heap[memory[a]].kind = "sav"
          /\ heap[memory[a]].cls = SaveConv.classesToStrings[heap[a].cls]
          /\ DOMAIN heap[memory[a]].attrs
                \subseteq FieldNames(SaveConv.objectSchemaLookup[heap[a].cls].fields)
          /\ phase = "saved" =>
                DOMAIN heap[memory[a]].attrs
                    = FieldNames(SaveConv.objectSchemaLookup[heap[a].cls].fields)

(* a FileItem that is no root and sits in a list declared to hold Items *)
C8_Witness ==
    /\ phase = "saved"
    /\ \E a \in DOMAIN memory :
          /\ heap[a].cls = "FileItem"
          /\ a \notin RefsOf(input.roots)
          /\ heap[memory[a]].cls = "file-item"
          /\ "tags" \in DOMAIN heap[memory[a]].attrs
          /\ \E l \in 1..Len(input.heap) :
                input.heap[l].kind = "list" /\ a \in RefsOf(input.heap[l].elems)
                /\ l \in Reach(input.heap, RefsOf(input.roots))

(***************************************************************************)
(* C9  Envelope stability, as amended.  The file saveDatabase has written  *)
(* holds the pair (VERSION, records) with VERSION the schema module's      *)
(* constant; loading it gives back that version and records equal to the   *)
(* written ones cell by cell and with the same sharing.  restoreDatabase   *)
(* reads the version but returns only the list of restored objects.        *)
(***************************************************************************)
SavedPath == calls[1].pathname

C9_EnvelopeStability ==
    /\ (phase \in {"saved", "restoring", "done"} /\ calls[1].fn = "saveDatabase"
          => /\ disk[SavedPath].exists
             /\ Len(disk[SavedPath].data) = 1
             /\ LET loaded == PickleLoad(heap, disk[SavedPath].data[1]) IN
                /\ loaded.version = VERSION
                /\ StructurallyEqual(loaded.heap, saved, loaded.savedObjects, "same")
                /\ IdentityExact(loaded.heap, saved, loaded.savedObjects)
                /\ \A a \in Reach(loaded.heap, RefsOf(loaded.savedObjects)) : a > Len(heap))
    /\ (stack # <<>> /\ stack[1].fn = "restoreDatabase" /\ calls[1].fn = "saveDatabase"
          => stack[1].version = VERSION)
    /\ (phase = "done" /\ FileRoundTrip
          => \A i \in 1..Len(result) : IsCell(heap, result[i], "obj"))

(* records three levels deep: a record whose list holds a record with a dict *)
C9_Witness ==
    /\ phase = "restoring" /\ stack[1].fn = "restoreDatabase" /\ Len(stack) = 1
    /\ \E a \in RefsOf(stack[1].ret) :
          /\ heap[a].cls = "feed"
          /\ \E i \in 1..Len(heap[heap[a].attrs["items"].v].elems) :
                LET b == heap[heap[a].attrs["items"].v].elems[i].v
                IN  /\ heap[b].cls = "file-item"
                    /\ Len(heap[heap[b].attrs["tags"].v].elems) > 0
                    /\ heap[b].attrs["feed"] = Ref(a)

(* C9 as claimed: the version read from the file is returned to the caller *)
C9_VersionReturned ==
    phase = "done" /\ FileRoundTrip
    => /\ Len(result) = 2
       /\ result[1] = PyInt(disk[SavedPath].data[1].version)

(***************************************************************************)
(* C10  The empty graph, as claimed: saveObjectList([]) with no schema set *)
(* given returns normally.  (The code raises NameError in __init__.)       *)
(***************************************************************************)
C10_EmptySaveReturns ==
    (/\ calls # <<>>
     /\ calls[1].fn = "saveObjectList"
     /\ calls[1].objectSchemas = NoSchemas
     /\ input.roots = <<>>)
    => phase # "failed"

(***************************************************************************)
(* C11  The default schema set, as claimed: when an entry point is called  *)
(* without objectSchemas, the converter is constructed (its lookups built  *)
(* from schema.objectSchemas) and the call does not end in __init__.       *)
(* (The code raises NameError: the module binds schema_mod, not schema.)   *)
(***************************************************************************)
C11_DefaultSchemaSet ==
    \A i \in 1..Len(calls) :
        calls[i].objectSchemas = NoSchemas
        => ~(i = Len(calls) /\ phase = "failed" /\ exc = "NameError")

(***************************************************************************)
(* C12  Corrupt container.  When the file does not parse into a pair       *)
(* (version, records), restoreDatabase ends with the error of the load or  *)
(* of the unpacking (the code's corrupt-container errors), before a        *)
(* converter was constructed and before makeNewConvert allocated anything, *)
(* and nothing is returned.                                                *)
(***************************************************************************)
CorruptContainer == {"EOFError", "UnpicklingError", "ValueError", "TypeError"}

Parses(f) == Len(f.data) = 1 /\ f.data[1].t = "tuple2"

C13_UnsupportedSchemaItem ==
    ~(/\ Running("convertObject")
      /\ Top.pc = "called"
      /\ Top.objectSchema.fields[Top.i][2].t = "other")

(***************************************************************************)
(* C14  The schema lookups are total and mutually inverse.  While a        *)
(* conversion runs and when it has returned, the three dicts of the        *)
(* converter hold, for every ObjectSchema s of the schema set the call was *)
(* given (class strings and classes pairwise distinct), s.klass under      *)
(* s.classString, s.classString under s.klass and s under s.klass, and no  *)
(* other key: the walk never changes them.                                 *)
(***************************************************************************)
Converting == \E i \in 1..Len(stack) : stack[i].fn = "convertObjectList"

Distinct(objectSchemas) ==
    \A i, j \in 1..Len(objectSchemas) :
        i # j => /\ objectSchemas[i].klass # objectSchemas[j].klass
                 /\ objectSchemas[i].classString # objectSchemas[j].classString

C14_LookupsInverse ==
    (Converting \/ phase \in {"saved", "done"})
    => LET objectSchemas == calls[Len(calls)].objectSchemas
           n == Len(objectSchemas)
       IN  Distinct(objectSchemas)
           => /\ DOMAIN conv.stringsToClasses = {objectSchemas[i].classString : i \in 1..n}
              /\ DOMAIN conv.classesToStrings = {objectSchemas[i].klass : i \in 1..n}
              /\ DOMAIN conv.objectSchemaLookup = {objectSchemas[i].klass : i \in 1..n}
              /\ \A i \in 1..n :
                    LET s == objectSchemas[i] IN
                    /\ conv.stringsToClasses[s.classString] = s.klass
                    /\ conv.classesToStrings[s.klass] = s.classString
                    /\ conv.objectSchemaLookup[s.klass] = s

(* deep in a restore from a file, with a schema set other than the save's *)
C14_Witness ==
    /\ Converting /\ Running("convertObject") /\ Top.pc = "called"
    /\ CallNames = <<"saveDatabase", "restoreDatabase">>
    /\ calls[1].objectSchemas = TestSchemas
    /\ calls[2].objectSchemas = BadSchemas
    /\ conv.dir = "restore"
    /\ DOMAIN conv.stringsToClasses = {"item", "file-item"}

(***************************************************************************)
(* C15  Flat-form invariant.  Every element of the list a successful save  *)
(* returned is a SavableObject, and everything reachable from the list     *)
(* through savedData, list elements, dict keys and dict values is None, a  *)
(* scalar, a list, a dict or a SavableObject: no live object, and so no    *)
(* source object, is reachable from it.                                    *)
(***************************************************************************)
IsFlatValue(h, x) ==
    \/ x = None
    \/ x.k \in {"int", "text"}
    \/ IsRef(x) /\ h[x.v].kind \in {"sav", "list", "dict"}

C15_FlatForm ==
    (/\ phase \in {"saved", "restoring", "done"}
     /\ calls[1].fn \in {"saveObjectList", "saveDatabase"})
    => /\ \A i \in 1..Len(saved) : IsCell(heap, saved[i], "sav")
       /\ \A a \in Reach(heap, RefsOf(saved)) :
             /\ heap[a].kind \in {"sav", "list", "dict"}
             /\ a > Len(input.heap)
             /\ \A i \in 1..Len(Children(heap[a])) : IsFlatValue(heap, Children(heap[a])[i])

(* a record whose list holds a record that holds a dict and the first record *)
C15_Witness ==
    /\ phase = "saved" /\ CallNames = <<"saveObjectList">>
    /\ \E a \in RefsOf(saved) :
          /\ heap[a].cls = "feed"
          /\ \E i \in 1..Len(heap[heap[a].attrs["items"].v].elems) :
                LET b == heap[heap[a].attrs["items"].v].elems[i].v
                IN  /\ heap[b].kind = "sav" /\ heap[b].cls = "file-item"
                    /\ Len(heap[heap[b].attrs["tags"].v].elems) > 0
                    /\ heap[b].attrs["feed"] = Ref(a)

(***************************************************************************)
(* C17  saveObjectList has no side effects on its input.  From the call    *)
(* on, while it runs and after it has returned or raised, every cell the   *)
(* client held before (objects with their attributes, lists, dicts) is     *)
(* what it was, reference for reference; the heap has only grown by the    *)
(* new target values.                                                      *)
(***************************************************************************)
C17_NoSideEffects ==
    (/\ Len(calls) = 1
     /\ calls[1].fn \in {"saveObjectList", "saveDatabase"})
    => /\ Len(heap) >= Len(input.heap)
       /\ SubSeq(heap, 1, Len(input.heap)) = input.heap
       /\ \A a \in Len(input.heap) + 1 .. Len(heap) : heap[a].kind # "obj"

(* a save that raised after it had converted a list of two objects *)
C17_Witness ==
    /\ phase = "failed" /\ CallNames = <<"saveObjectList">>
    /\ exc \in {"ValidationError", "KeyError", "ValueError"}
    /\ Len(heap) > Len(input.heap)
    /\ \E a \in Len(input.heap) + 1 .. Len(heap) :
          heap[a].kind = "list" /\ Len(heap[a].elems) = 2

(***************************************************************************)
(* C18  Every top-level object is converted, as amended.  The list a       *)
(* conversion returns holds, in the order of the input, the conversion of  *)
(* every input object the converter prepared.  On restore that is every    *)
(* record: the result has the length of the input and its i-th element is  *)
(* the conversion of the i-th record.  On save it is every object whose    *)
(* class is in the schema set: a top-level object of another class is left *)
(* out and the result is shorter by one.                                   *)
(***************************************************************************)
OfRegisteredClass(r) == input.heap[r.v].cls \in DOMAIN conv.classesToStrings

(* the list the last restore was given *)
RestoredFrom ==
    IF CallNames = <<"restoreObjectList">> THEN input.roots
    ELSE IF ListRoundTrip THEN saved
    ELSE LET pickled == disk[calls[Len(calls)].pathname].data[1]
             (* load allocates the cells in the order of the pickle, whose      *)
             (* first cell is the first record                                  *)
             base == IF memory = <<>> THEN 0
                     ELSE (CHOOSE a \in DOMAIN memory :
                              \A b \in DOMAIN memory : a <= b) - 1
         IN  [i \in 1..Len(pickled.roots) |-> Ref(base + pickled.roots[i].v)]

C18_PreparedConverted ==
    /\ phase = "saved"
          => LET prepared == SelectSeq(input.roots, OfRegisteredClass) IN
             /\ Len(saved) = Len(prepared)
             /\ \A i \in 1..Len(saved) :
                   /\ prepared[i].v \in DOMAIN memory
                   /\ saved[i] = Ref(memory[prepared[i].v])
                   /\ heap[saved[i].v].cls = conv.classesToStrings[heap[prepared[i].v].cls]
    /\ phase = "done"
          => /\ Len(result) = Len(RestoredFrom)
             /\ \A i \in 1..Len(result) :
                   /\ RestoredFrom[i].v \in DOMAIN memory
                   /\ result[i] = Ref(memory[RestoredFrom[i].v])
                   /\ heap[result[i].v].cls = conv.stringsToClasses[heap[RestoredFrom[i].v].cls]

(* three roots, the first of a class without schema: two records come back *)
C18_Witness ==
    /\ phase = "saved" /\ CallNames = <<"saveObjectList">>
    /\ Len(input.roots) = 3
    /\ ~OfRegisteredClass(input.roots[1])
    /\ Len(saved) = 2
    /\ saved[1] # saved[2]

(* C18 as claimed: no input object is skipped, in either direction *)
C18_EveryObjectConverted ==
    /\ phase = "saved" => Len(saved) = Len(input.roots)
    /\ phase = "done" => Len(result) = Len(RestoredFrom)

(***************************************************************************)
(* C19  Memo before recursion.  In every convertObject call in progress:   *)
(* until the new target is stored in the memo no field has been fetched    *)
(* and the target has no attribute; from then on, and so whenever          *)
(* convertData runs on a field of the object, the memo holds the target    *)
(* under the identity of the source object.                                *)
(***************************************************************************)
C19_MemoBeforeRecursion ==
    \A i \in 1..Len(stack) :
        stack[i].fn = "convertObject"
        => LET f == stack[i] IN
           /\ f.pc \in {"check", "new", "memo"}
                 => /\ f.i = 1
                    /\ i = Len(stack)
                    /\ f.pc = "memo" => heap[f.convertedObject].attrs = NoAttrs
           /\ f.pc \in {"fields", "called"}
                 => /\ f.object.v \in DOMAIN memory
                    /\ memory[f.object.v] = f.convertedObject
           /\ i < Len(stack)
                 => /\ stack[i + 1].fn = "convertData"
                    /\ f.object.v \in DOMAIN memory

(* convertData is about to convert a field that holds an object whose own  *)
(* convertObject call is still in progress further down the stack          *)
C19_Witness ==
    /\ Running("convertData") /\ Top.pc = "start"
    /\ Len(stack) > 6
    /\ stack[Len(stack) - 1].fn = "convertObject"
    /\ \E i \in 1..Len(stack) - 2 :
          /\ stack[i].fn = "convertObject"
          /\ stack[i].object = Top.data
          /\ stack[i].pc = "called"
          /\ heap[memory[Top.data.v]].attrs # NoAttrs

(***************************************************************************)
(* C20  One target per source object.  Within one convertObjectList call   *)
(* the memo never maps two source objects to one target and at most one    *)
(* target exists that is not yet in the memo; when the call has returned,  *)
(* the targets makeNewConvert allocated are exactly the memo's values, one *)
(* for each object reachable from the converted roots, and wherever the    *)
(* source graph holds an object the result holds that object's target.     *)
(***************************************************************************)
SourceRoots ==
    IF conv.dir = "save" THEN SelectSeq(input.roots, OfRegisteredClass) ELSE RestoredFrom

Returned == IF phase = "saved" THEN saved ELSE result

(* the objects makeNewConvert has allocated in the running or last call *)
Targets ==
    {a \in Len(input.heap) + 1 .. Len(heap) :
        heap[a].kind = (IF conv.dir = "save" THEN "sav" ELSE "obj")}

C20_OneTargetPerSource ==
    /\ \A a, b \in DOMAIN memory : a # b => memory[a] # memory[b]
    /\ Converting
          => /\ {memory[a] : a \in DOMAIN memory} \subseteq Targets
             /\ Cardinality(Targets) <= Cardinality(DOMAIN memory) + 1
    /\ phase \in {"saved", "done"}
          => /\ DOMAIN memory =
                   {a \in Reach(heap, RefsOf(SourceRoots)) : IsInstance(heap, a)}
             /\ {memory[a] : a \in DOMAIN memory} = Targets
             /\ Cardinality(Targets) = Cardinality(DOMAIN memory)
             /\ \A p \in Pairs(heap, SourceRoots, Returned) :
                   IsInstance(heap, p[1]) => p[2] = memory[p[1]]

(* three objects, each met more than once: as a root, in a list, in a field *)
C20_Witness ==
    /\ phase = "done" /\ ListRoundTrip
    /\ Cardinality(DOMAIN memory) = 3
    /\ Len(result) = 3
    /\ \E a \in RefsOf(result) :
          /\ heap[a].cls = "Feed"
          /\ LET items == heap[heap[a].attrs["items"].v].elems IN
             /\ Len(items) = 2
             /\ items[1] # items[2]
             /\ RefsOf(items) \subseteq RefsOf(result)
             /\ \A i \in 1..2 : heap[items[i].v].attrs["feed"] = Ref(a)

(***************************************************************************)
(* C16  Call isolation.  Two calls run in two threads, switched at any     *)
(* step, on lists whose graphs share no cell: neither call raises, the     *)
(* memo of a call only ever holds objects of that call's own graph and     *)
(* targets of its own, and what each call returns is what it returns when  *)
(* it runs alone: the graph of its argument, cell by cell, with the same   *)
(* object exactly where the argument has the same object.  Two calls made  *)
(* one after the other on the same list return lists that have no cell in  *)
(* common.  No source cell is changed.                                     *)
(***************************************************************************)
TwoCalls == <<Locals, parked>>

ReturnedBy(call) == IF call.input.form = "obj" THEN call.saved ELSE call.result

(* every cell a call has made or returned *)
MadeBy(call) ==
    {call.memory[a] : a \in DOMAIN call.memory}
    \cup (Reach(heap, RefsOf(ReturnedBy(call))) \ (1..Len(input.heap)))

AsAlone(call) ==
    /\ call.phase # "failed"
    /\ DOMAIN call.memory \subseteq Reach(input.heap, RefsOf(call.input.roots))
    /\ call.phase \in {"saved", "done"}
          => /\ StructurallyEqual(heap, call.input.roots, ReturnedBy(call),
                                  IF call.input.form = "obj" THEN "flat" ELSE "live")
             /\ IdentityExact(heap, call.input.roots, ReturnedBy(call))
             /\ \A a \in Reach(heap, RefsOf(ReturnedBy(call))) :
                   /\ a > Len(input.heap)
                   /\ heap[a].kind # call.input.form

C16_CallIsolation ==
    /\ AsAlone(TwoCalls[1])
    /\ AsAlone(TwoCalls[2])
    /\ MadeBy(TwoCalls[1]) \cap MadeBy(TwoCalls[2]) = {}
    /\ SubSeq(heap, 1, Len(input.heap)) = input.heap

(* a save and a restore, both returned, that took turns: the restore made  *)
(* an object between two records of the save, and the save's graph has a   *)
(* cycle                                                                   *)
C16_Witness ==
    /\ phase = "saved" /\ parked.phase = "done"
    /\ input.roots # parked.input.roots
    /\ \E a, c \in MadeBy(Locals), b \in MadeBy(parked) :
          /\ a < b /\ b < c
          /\ heap[a].kind = "sav" /\ heap[c].kind = "sav" /\ heap[b].kind = "obj"
          /\ heap[c].attrs["feed"] = Ref(a)

(***************************************************************************)
(* C21  Restore-side validation timing, as claimed: whenever postValidate  *)
(* is applied on restore to the object convertObject returned, the object  *)
(* has every field its ObjectSchema declares.  (For a back reference of a  *)
(* cycle convertObject returns the memoized object whose field loop is     *)
(* still running, and convertData validates that.)                         *)
(***************************************************************************)
C21_ValidatedWhenComplete ==
    (/\ Running("convertData")
     /\ Top.pc = "called"
     /\ conv.dir = "restore"
     /\ Top.schema.t = "object")
    => DOMAIN heap[Top.ret.v].attrs
          = FieldNames(conv.objectSchemaLookup[heap[Top.ret.v].cls].fields)

(***************************************************************************)
(* C22  Restore resolves classes by the stored tag.  The live object made  *)
(* for a flat record r has the class stringsToClasses[r.classString] and,  *)
(* once r is converted, exactly the fields of the ObjectSchema registered  *)
(* for that class, whatever class the schema item names under which r was  *)
(* reached; so an object that went through save and restore with one       *)
(* schema set comes back with the class it had.                            *)
(***************************************************************************)
C22_RestoreByTag ==
    /\ (conv # <<>> /\ conv.dir = "restore" /\ phase \in {"restoring", "done"})
          => \A a \in DOMAIN memory :
                LET klass == conv.stringsToClasses[heap[a].cls] IN
                /\ heap[a].cls \in DOMAIN conv.stringsToClasses
                /\ heap[memory[a]].kind = "obj"
                /\ heap[memory[a]].cls = klass
                /\ DOMAIN heap[memory[a]].attrs
                      \subseteq FieldNames(conv.objectSchemaLookup[klass].fields)
                /\ phase = "done" =>
                      DOMAIN heap[memory[a]].attrs
                          = FieldNames(conv.objectSchemaLookup[klass].fields)
    /\ (phase = "done" /\ Len(calls) = 2 /\ calls[1].objectSchemas = calls[2].objectSchemas)
          => \A p \in Pairs(heap, ConvertedRoots, result) :
                IsInstance(heap, p[1]) => /\ heap[p[2]].kind = "obj"
                                          /\ heap[p[2]].cls = heap[p[1]].cls

(* the record of a FileItem that is no root and sits in a list declared to *)
(* hold Items: it came back as a FileItem, with its tags                   *)
C22_Witness ==
    /\ phase = "done" /\ ListRoundTrip
    /\ \E a \in DOMAIN memory :
          /\ heap[a].kind = "sav" /\ heap[a].cls = "file-item"
          /\ Ref(a) \notin {saved[i] : i \in 1..Len(saved)}
          /\ heap[memory[a]].cls = "FileItem"
          /\ "tags" \in DOMAIN heap[memory[a]].attrs
          /\ \E l \in 1..Len(heap) : heap[l].kind = "list" /\ a \in RefsOf(heap[l].elems)

(***************************************************************************)
(* C23  Field walk.  While convertObject runs, its target has the first    *)
(* fields of the ObjectSchema of the source's own class, in schema order,  *)
(* up to the one being converted; when the conversion has returned, every  *)
(* target has exactly the declared field names (a source attribute the     *)
(* schema does not name is not copied), each with the conversion of the    *)
(* source's value: the scalar itself, the target of the object, a new list *)
(* or dict with the conversions of the elements.                           *)
(***************************************************************************)
(* y is the conversion of x, for a value that is no container *)
ConvertedValue(x, y) ==
    IF IsRef(x)
    THEN x.v \in DOMAIN memory /\ y = Ref(memory[x.v])
    ELSE y = x

ConvertedField(x, y) ==
    IF IsRef(x) /\ heap[x.v].kind = "list"
    THEN /\ IsCell(heap, y, "list") /\ y # x
         /\ Len(heap[y.v].elems) = Len(heap[x.v].elems)
         /\ \A i \in 1..Len(heap[x.v].elems) :
               ConvertedValue(heap[x.v].elems[i], heap[y.v].elems[i])
    ELSE IF IsRef(x) /\ heap[x.v].kind = "dict"
    THEN /\ IsCell(heap, y, "dict") /\ y # x
         /\ Len(heap[y.v].elems) = Len(heap[x.v].elems)
         /\ \A i \in 1..Len(heap[x.v].elems) :
               /\ ConvertedValue(heap[x.v].elems[i][1], heap[y.v].elems[i][1])
               /\ ConvertedValue(heap[x.v].elems[i][2], heap[y.v].elems[i][2])
    ELSE ConvertedValue(x, y)

C23_FieldWalk ==
    /\ \A k \in 1..Len(stack) :
          (stack[k].fn = "convertObject" /\ stack[k].pc \in {"fields", "called"})
          => LET f == stack[k]
                 fields == conv.objectSchemaLookup[SchemaKey(conv, heap, f.object, f.schema)].fields
             IN  /\ f.objectSchema.fields = fields
                 /\ f.i \in 1..Len(fields)
                 /\ DOMAIN heap[f.convertedObject].attrs = {fields[j][1] : j \in 1..(f.i - 1)}
    /\ (phase \in {"saved", "done"} /\ conv # <<>>)
          => \A a \in DOMAIN memory :
                LET fields == conv.objectSchemaLookup[SchemaKey(conv, heap, Ref(a), <<>>)].fields IN
                /\ DOMAIN heap[memory[a]].attrs = FieldNames(fields)
                /\ \A j \in 1..Len(fields) :
                      ConvertedField(heap[a].attrs[fields[j][1]],
                                     heap[memory[a]].attrs[fields[j][1]])

(* a FileItem saved with the schema set that declares tags and feed, in    *)
(* that order, and not name                                                *)
C23_Witness ==
    /\ phase = "saved" /\ calls[1].objectSchemas = BadSchemas
    /\ \E a \in DOMAIN memory :
          /\ heap[a].cls = "FileItem"
          /\ heap[a].attrs["name"] = PyText(a)
          /\ DOMAIN heap[memory[a]].attrs = {"tags", "feed"}
          /\ IsRef(heap[a].attrs["tags"])
          /\ Len(heap[heap[memory[a]].attrs["tags"].v].elems) > 0

(***************************************************************************)
(* C24  Sequence conversion.  When convertData gets back the conversion of *)
(* a list under a list item, it is a list allocated by this call (no cell  *)
(* refers to it yet and it is not the input list), of the length of the    *)
(* input, whose i-th element is the conversion of the i-th element of the  *)
(* input; the input list still holds what it held.                         *)
(***************************************************************************)
SourceForm == IF conv.dir = "save" THEN "obj" ELSE "sav"

C24_SequenceConversion ==
    (/\ Running("convertData")
     /\ Top.pc = "called"
     /\ Top.schema.t = "list")
    => LET list == Top.data
           rv == Top.ret
       IN  /\ IsCell(heap, rv, "list")
           /\ rv # list
           /\ rv.v > list.v
           /\ \A a \in 1..Len(heap) : rv.v \notin RefsOf(Children(heap[a]))
           /\ \A k \in 1..(Len(stack) - 1) :
                 stack[k].fn \in {"convertData", "convertList", "convertDict", "convertObject"}
                 => stack[k].ret # rv
           /\ Len(heap[rv.v].elems) = Len(heap[list.v].elems)
           /\ \A i \in 1..Len(heap[list.v].elems) :
                 ConvertedValue(heap[list.v].elems[i], heap[rv.v].elems[i])
           /\ \A i \in 1..Len(heap[list.v].elems) :
                 heap[heap[list.v].elems[i].v].kind = SourceForm
           /\ list.v <= Len(input.heap) => heap[list.v] = input.heap[list.v]

(* a list of two different records restored to a list of two objects *)
C24_Witness ==
    /\ Running("convertData") /\ Top.pc = "called" /\ Top.schema.t = "list"
    /\ conv.dir = "restore"
    /\ Len(heap[Top.ret.v].elems) = 2
    /\ heap[Top.ret.v].elems[1] # heap[Top.ret.v].elems[2]
    /\ heap[heap[Top.ret.v].elems[1].v].kind = "obj"

(***************************************************************************)
(* C25  Mapping conversion.  When convertData gets back the conversion of  *)
(* a dict under a dict item, it is a dict allocated by this call that      *)
(* holds, for every entry (k, v) of the source, the entry of the converted *)
(* key and the converted value unless a later entry of the source gave the *)
(* same converted key, and no other entry; when the converted keys are     *)
(* all different it has as many entries as the source.                     *)
(***************************************************************************)
C25_MappingConversion ==
    (/\ Running("convertData")
     /\ Top.pc = "called"
     /\ Top.schema.t = "dict")
    => LET dict == Top.data
           rv == Top.ret
           src == heap[dict.v].elems
           out == heap[rv.v].elems
           Key(x) == IF IsRef(x) THEN Ref(memory[x.v]) ELSE x
       IN  /\ IsCell(heap, rv, "dict")
           /\ rv # dict
           /\ rv.v > dict.v
           /\ \A a \in 1..Len(heap) : rv.v \notin RefsOf(Children(heap[a]))
           /\ \A i \in 1..Len(src) :
                 \/ \E j \in (i + 1)..Len(src) : Key(src[j][1]) = Key(src[i][1])
                 \/ \E e \in 1..Len(out) : /\ ConvertedValue(src[i][1], out[e][1])
                                           /\ ConvertedValue(src[i][2], out[e][2])
           /\ \A e \in 1..Len(out) :
                 \E i \in 1..Len(src) : /\ ConvertedValue(src[i][1], out[e][1])
                                        /\ ConvertedValue(src[i][2], out[e][2])
           /\ \A e, g \in 1..Len(out) : e # g => out[e][1] # out[g][1]
           /\ (\A i, j \in 1..Len(src) : i # j => Key(src[i][1]) # Key(src[j][1]))
                 => Len(out) = Len(src)
           /\ dict.v <= Len(input.heap) => heap[dict.v] = input.heap[dict.v]

(* a dict of two entries saved *)
C25_Witness ==
    /\ Running("convertData") /\ Top.pc = "called" /\ Top.schema.t = "dict"
    /\ conv.dir = "save"
    /\ Len(heap[Top.data.v].elems) = 2
    /\ Len(heap[Top.ret.v].elems) = 2
    /\ heap[Top.ret.v].elems[2][2] = PyInt(2)

(***************************************************************************)
(* C26  None maps to itself, as amended.  A convertData call on None under *)
(* an item of the four kinds allocates nothing and leaves the memo as it   *)
(* is; when the item's validation accepts None the call returns None to    *)
(* its caller, in both directions, and when it does not the call ends with *)
(* the error handleValidationError raises and returns nothing.             *)
(***************************************************************************)
FourKinds == {"simple", "list", "dict", "object"}

NoneUnderItem ==
    /\ Running("convertData")
    /\ Top.pc = "start"
    /\ Top.data = None
    /\ Top.schema.t \in FourKinds

ReturnsNone ==
    /\ Len(stack') = Len(stack) - 1
    /\ stack'[Len(stack')].ret = None
    /\ phase' = phase

Finished(call) == call.phase \in {"done", "failed"} /\ call.calls # <<>>

(* the call on the file a.db, which is made first, and the other one *)
FirstCall == IF calls # <<>> /\ calls[1].pathname = "a.db" THEN Locals ELSE parked
SecondCall == IF calls # <<>> /\ calls[1].pathname = "a.db" THEN parked ELSE Locals

C27_VersionIndependence ==
    (Finished(Locals) /\ Finished(parked))
    => LET half == Len(heap) \div 2
           moved == [a \in 1..half |-> a + half]
           A == FirstCall
           B == SecondCall
       IN  /\ Len(heap) = 2 * half
           /\ \A a \in 1..half : heap[a + half] = RenumberCell(heap[a], moved)
           /\ B.phase = A.phase
           /\ B.exc = A.exc
           /\ Len(B.result) = Len(A.result)
           /\ \A i \in 1..Len(A.result) :
                 /\ IsRef(A.result[i])
                 /\ B.result[i] = Renumber(A.result[i], moved)
           /\ DOMAIN B.memory = {a + half : a \in DOMAIN A.memory}
           /\ \A a \in DOMAIN A.memory : B.memory[a + half] = A.memory[a] + half
           /\ DOMAIN B.bodyCount = {a + half : a \in DOMAIN A.bodyCount}

(* both files gave a Feed whose list holds an Item that refers back to it *)
C27_Witness ==
    /\ phase = "done" /\ parked # <<>> /\ parked.phase = "done"
    /\ calls # <<>> /\ calls[1].pathname = "b.db"
    /\ disk["a.db"].data[1].version # disk["b.db"].data[1].version
    /\ disk["a.db"].data[1].cells = disk["b.db"].data[1].cells
    /\ result # parked.result
    /\ \E a \in RefsOf(result) :
          /\ heap[a].cls = "Feed"
          /\ \E i \in 1..Len(heap[heap[a].attrs["items"].v].elems) :
                heap[heap[heap[a].attrs["items"].v].elems[i].v].attrs["feed"] = Ref(a)

(***************************************************************************)
(* C28  Only objects are memoized.  The memo holds instances only.  When   *)
(* a conversion has returned, the containers held by the fields of its     *)
(* targets are all different cells, also where two fields of the source    *)
(* hold one and the same list or dict; the two containers made for one     *)
(* source container are equal in content, and the objects in them are the  *)
(* memoized targets of the source's objects.                               *)
(***************************************************************************)
(* the fields of the converted source objects that hold a list or a dict *)
ContainerFields ==
    {p \in (DOMAIN memory) \X {"items", "tags"} :
        /\ p[2] \in DOMAIN heap[memory[p[1]]].attrs
        /\ IsRef(heap[p[1]].attrs[p[2]])
        /\ heap[heap[p[1]].attrs[p[2]].v].kind \in {"list", "dict"}}

SourceOf(p) == heap[p[1]].attrs[p[2]]
TargetOf(p) == heap[memory[p[1]]].attrs[p[2]]

C28_ContainersNotMemoized ==
    /\ \A a \in DOMAIN memory : IsInstance(heap, a) /\ IsInstance(heap, memory[a])
    /\ (phase \in {"saved", "done"} /\ conv # <<>>)
          => \A p, q \in ContainerFields :
                /\ ConvertedField(SourceOf(p), TargetOf(p))
                /\ p # q => TargetOf(p) # TargetOf(q)
                /\ SourceOf(p) = SourceOf(q) => heap[TargetOf(p).v] = heap[TargetOf(q).v]

(* two Feeds saved that hold one list, with an Item in it *)
C28_Witness ==
    /\ phase = "saved"
    /\ \E p, q \in ContainerFields :
          /\ p # q
          /\ SourceOf(p) = SourceOf(q)
          /\ TargetOf(p) # TargetOf(q)
          /\ heap[TargetOf(p).v].kind = "list"
          /\ Len(heap[TargetOf(p).v].elems) > 0
          /\ heap[TargetOf(p).v].elems[1] = heap[TargetOf(q).v].elems[1]
          /\ heap[heap[TargetOf(p).v].elems[1].v].kind = "sav"

(***************************************************************************)
(* C29  Unknown tag on restore.  When one of the records at the top level  *)
(* of the list restoreObjectList is given has a classString that is not in *)
(* the schema set, the call ends with the KeyError of prepareObjectList    *)
(* (it is no ValidationWarning): the memo is empty, convertObject was      *)
(* never entered, no live object was made and nothing is returned.         *)
(***************************************************************************)
LastCall == calls[Len(calls)]

(* the class strings of the records the last restoreObjectList was given *)
GivenTags ==
    IF LastCall.fn = "restoreObjectList"
    THEN LET list == IF Len(calls) = 1 THEN input.roots ELSE saved
         IN  [i \in 1..Len(list) |-> heap[list[i].v].cls]
    ELSE LET pickled == disk[LastCall.pathname].data[1]
         IN  [i \in 1..Len(pickled.roots) |-> pickled.cells[pickled.roots[i].v].cls]

RestoreGiven ==
    /\ calls # <<>>
    /\ LastCall.objectSchemas # NoSchemas
    /\ \/ LastCall.fn = "restoreObjectList"
       \/ /\ LastCall.fn = "restoreDatabase"
          /\ disk[LastCall.pathname].exists
          /\ Parses(disk[LastCall.pathname])
          /\ ~(Running("restoreDatabase") /\ Top.pc = "convert")

UnknownTags(objectSchemas) ==
    {i \in 1..Len(GivenTags) :
        \A k \in 1..Len(objectSchemas) : objectSchemas[k].classString # GivenTags[i]}

C29_UnknownTag ==
    (RestoreGiven /\ UnknownTags(LastCall.objectSchemas) # {})
    => /\ phase = "failed"
       /\ exc = "KeyError"
       /\ stack = <<>>
       /\ memory = <<>>
       /\ bodyCount = <<>>
       /\ \A a \in (Len(input.heap) + 1)..Len(heap) : heap[a].kind # "obj"
       /\ Len(calls) = 1 => result = <<>>
       /\ Len(calls) = 2 /\ calls[1].fn = "saveObjectList" => result = saved
       /\ Len(calls) = 2 /\ calls[1].fn = "saveDatabase" => result = None

(* three records, the third with the unknown tag and the first a feed *)
C29_Witness ==
    /\ phase = "failed" /\ exc = "KeyError"
    /\ CallNames = <<"restoreObjectList">>
    /\ calls[1].objectSchemas = TestSchemas
    /\ Len(input.roots) = 3
    /\ UnknownTags(TestSchemas) = {3}
    /\ heap[input.roots[1].v].cls = "feed"
    /\ heap = input.heap

(***************************************************************************)
(* C30  An unregistered class on save, by position.  At the top level an   *)
(* object whose class is not in the schema set is left out: it is not in   *)
(* the list convertObjectList walks, the result has one record per         *)
(* registered top-level object, and a graph that conforms otherwise is     *)
(* saved without an error.  Below the top level, when convertObject is     *)
(* entered for an object of an unregistered class (its field's validation  *)
(* has accepted it), the call ends with the KeyError of getObjectSchema    *)
(* and nothing is returned; a save ends with KeyError in no other way.     *)
(***************************************************************************)
SaveCall ==
    /\ calls # <<>>
    /\ calls[1].fn \in {"saveObjectList", "saveDatabase"}
    /\ calls[1].objectSchemas # NoSchemas

Unregistered(x) == IsRef(x) /\ heap[x.v].kind = "obj" /\ heap[x.v].cls \notin Registered

(* convertObject is about to look up the schema of an unregistered class *)
AtUnregistered ==
    /\ Running("convertObject")
    /\ Top.pc = "new"
    /\ conv.dir = "save"
    /\ Unregistered(Top.object)

(* some registered object holds an object of an unregistered class in a field *)
HoldsUnregistered ==
    \E a \in 1..Len(input.heap) :
        /\ input.heap[a].kind = "obj"
        /\ input.heap[a].cls \in Registered
        /\ \E f \in DOMAIN input.heap[a].attrs : Unregistered(input.heap[a].attrs[f])

C30_TopLevel ==
    SaveCall
    => /\ \A k \in 1..Len(stack) :
             (stack[k].fn = "convertObjectList" /\ conv.dir = "save")
             => /\ Len(stack[k].todo) = Len(ConvertedRoots)
                /\ \A i \in 1..Len(stack[k].todo) : ~Unregistered(stack[k].todo[i][1])
       /\ phase = "saved"
             => /\ Len(saved) = Len(ConvertedRoots)
                /\ \A i \in 1..Len(input.roots) :
                      Unregistered(input.roots[i]) => input.roots[i].v \notin DOMAIN memory
       /\ (phase = "failed" /\ Len(calls) = 1 /\ calls[1].objectSchemas = TestSchemas)
             => ~ValidInput
       /\ (phase = "failed" /\ Len(calls) = 1 /\ exc = "KeyError") => HoldsUnregistered
       /\ AtUnregistered
             => /\ Len(stack) > 4
                /\ \E k \in 1..(Len(stack) - 1) :
                      stack[k].fn = "convertObject" /\ ~Unregistered(stack[k].object)

C30_Nested ==
    AtUnregistered
    => /\ phase' = "failed"
       /\ exc' = "KeyError"
       /\ stack' = <<>>
       /\ heap' = heap
       /\ saved' = <<>>
       /\ result' = <<>>
       /\ disk' = disk

C30_UnregisteredOnSave == []C30_TopLevel /\ [][C30_Nested]_vars

(* the Feed at the top level was left out; the FileItem after it holds the *)
(* Feed in its field feed, which takes any object: KeyError                *)
C30_Witness ==
    /\ phase = "failed" /\ exc = "KeyError"
    /\ CallNames = <<"saveObjectList">>
    /\ calls[1].objectSchemas = BadSchemas
    /\ Len(input.roots) = 2
    /\ Unregistered(input.roots[1])
    /\ heap[input.roots[2].v].cls = "FileItem"
    /\ heap[input.roots[2].v].attrs["feed"] = input.roots[1]
    /\ Len(heap) > Len(input.heap)
    /\ saved = <<>> /\ result = <<>>

====
